---- MODULE Spec2Model ----
(***************************************************************************)
(* Background physics-simulation scheduler and multi-world synchronization *)
(* of bevy_rapier: the systems handle_tasks and spawn_simulation_task      *)
(* (plugin/systems/task.rs), sync_removals (plugin/systems/remove.rs) and  *)
(* on_add_entity_with_parent / on_change_world                             *)
(* (plugin/systems/multiple_rapier_contexts.rs).                           *)
(*                                                                         *)
(* An Option<T> is a sequence of length 0 (None) or 1 (Some).  Time is     *)
(* counted in render frames (1/60 s).  A handle is named by the entity it  *)
(* was created for; a container is the set of its live handles together    *)
(* with a revision counter that every mutation by the solver increments;   *)
(* sensor and disabled are the sets of handles that carry the flag.        *)
(* A collider's parent body is the pair <<collider, body>> of              *)
(* colliders.parent; a joint is the triple <<joint, body1, body2>>.        *)
(***************************************************************************)
EXTENDS Integers, Sequences, FiniteSets, TLC

Worlds == {"w1", "w2"}
Entities == {"e1", "e2", "e3", "e4"}
Kinds == {"body", "collider", "impulse_joint", "multibody_joint"}

\* task.rs:122  `if task.render_frames_elapsed > 20`
BlockingThreshold == 20
\* task.rs:202  `let max_tries_to_catch_up = 3;`
max_tries_to_catch_up == 3
\* bound: background steps dispatched per World in one behaviour
MaxDispatch == 2
\* bound: render time (frames) after which the clock no longer advances
MaxTime == 1
\* bound: component changes the host makes in one behaviour
MaxHostOps == 3
\* number of changes the host makes to links, parents and components in SpecLink
MaxLinkOps == 3
\* bound: update cycles a marker that is never removed is followed for
MaxElapsed == 23
\* simulated time one call of step_simulation may report (frames)
StepDeltas == {1, 2}
\* render time one update cycle may add (0: a paused clock)
FrameDeltas == {0, 1}

VARIABLES
    schedule,            \* the systems of one update cycle, in order
    pc,                  \* index in schedule of the system that runs next
    now,                 \* Time::elapsed(), the render clock
    task,                \* World -> Option<SimulationTask>
    commands,            \* World -> deferred commands on its SimulationTask
    workers,             \* World -> the detached worker tasks that still run
    chan,                \* World -> results sent and not yet received
    polled,              \* World -> how handle_tasks last received ("recv", "try_recv", "none")
    dispatched,          \* World -> number of steps dispatched so far
    collected,           \* World -> number of results applied so far
    dispatch_limit,      \* World -> number of steps the behaviour may dispatch
    context,             \* World -> RapierContextSimulation
    bodies,              \* World -> RapierRigidBodySet
    colliders,           \* World -> RapierContextColliders
    joints,              \* World -> RapierContextJoints
    query_pipeline,      \* World -> RapierQueryPipeline
    sim_to_render_time,  \* World -> SimulationToRenderTime.diff
    config,              \* World -> RapierConfiguration
    timestep_mode,       \* the TimestepMode resource
    reacted,             \* World -> Option<sub-step count the heuristic last wrote for it>
    entity2body,             \* World -> entities mapped to a rigid-body handle
    entity2collider,         \* World -> entities mapped to a collider handle
    entity2impulse_joint,    \* World -> entities mapped to an impulse-joint handle
    entity2multibody_joint,  \* World -> entities mapped to a multibody-joint handle
    deleted_colliders,       \* World -> deleted collider handles (named by their entity)
    descr,               \* kind -> entities holding the source descriptor (RigidBody, Collider, ...)
    handle,              \* kind -> entities holding the handle component (RapierRigidBodyHandle, ...)
    removed,             \* kind -> RemovedComponents events sync_removals has not read yet
    entity_commands,     \* deferred commands on entities, in the order they were issued
    marker,              \* marker kind -> entities holding the marker component (Sensor, ...)
    removed_marker,      \* marker kind -> RemovedComponents events sync_removals has not read yet
    mass_modified,       \* MassModifiedEvent sent by the last sync_removals pass
    host_ops,            \* number of component changes the host may still make
    touched,             \* World -> sync_removals changed the World in its last pass
    removal_log,         \* the removals and flag resets of the last sync_removals pass, in order
    no_context,          \* <<kind, entity>>: the removal signals the last pass skipped with `continue`
    link,                \* entity -> Option<RapierContextEntityLink>, the World it names
    parent,              \* entity -> Option<Parent>
    link_changed,        \* system -> entities whose link changed since the system last ran
    parent_changed,      \* entities whose Parent changed since on_add_entity_with_parent ran
    host_log,            \* what the host has changed in the current update cycle
    accessed,            \* Option<the last lookup of a World through a link, and its outcome>
    events               \* World -> the contexts send_bevy_events was called on in the last handle_tasks pass

clockVars == <<now>>

eventVars == <<events, accessed>>

taskVars == <<task, commands, workers, chan, polled, dispatched, collected, dispatch_limit>>

worldVars == <<context, bodies, colliders, joints, query_pipeline>>

driftVars == <<sim_to_render_time, config>>

modeVars == <<timestep_mode, reacted>>

flagVars == <<marker, removed_marker>>

\* remove.rs:37-39  the marker components whose removal sync_removals follows
MarkerKinds == {"Sensor", "ColliderDisabled", "RigidBodyDisabled"}

mapVars == <<entity2body, entity2collider, entity2impulse_joint, entity2multibody_joint,
             deleted_colliders>>

ecsVars == <<descr, handle, removed, entity_commands, host_ops>>

syncVars == <<mass_modified, touched, removal_log, no_context>>

linkVars == <<link, link_changed>>

treeVars == <<parent, parent_changed>>

hierVars == <<linkVars, treeVars, host_log>>

vars == <<schedule, pc, clockVars, eventVars, modeVars, flagVars, taskVars, worldVars, driftVars, mapVars, ecsVars, syncVars,
          hierVars>>

\* the two systems that query Changed<RapierContextEntityLink>
PropagatorSystems == {"on_add_entity_with_parent", "on_change_world"}

None == <<>>
Some(x) == <<x>>
IsSome(o) == Len(o) = 1
Unwrap(o) == o[1]

\* the elements of S in the order a loop happens to visit them
RECURSIVE Listed(_)
Listed(S) ==
    IF S = {} THEN <<>>
    ELSE LET x == CHOOSE y \in S : TRUE IN <<x>> \o Listed(S \ {x})

(***************************************************************************)
(* The update cycle                                                        *)
(***************************************************************************)
Sys == schedule[pc]
Advance == /\ pc' = IF pc = Len(schedule) THEN 1 ELSE pc + 1
           /\ UNCHANGED schedule

\* RapierContextSimulation::default()
DefaultContext == [rev |-> 0]

\* one call of step_simulation: the solver mutates every container it is handed
Stepped(part) == [part EXCEPT !.rev = @ + 1]

(***************************************************************************)
(* handle_tasks                                                            *)
(***************************************************************************)
BlocksOnAtThreshold(t) == t.render_frames_elapsed >= BlockingThreshold

\* task.rs:122  the blocking receive is chosen once the counter exceeds the threshold
BlocksOn(t) == t.render_frames_elapsed > BlockingThreshold

NeverDisconnected(w) == FALSE
\* crossbeam: a channel is disconnected when it is empty and its sender is gone
Disconnected(w) == chan[w] = <<>> /\ workers[w] = <<>>

RecvReturnsAtOnce(w) == TRUE

\* recv() returns only when a result is buffered or the channel is disconnected
RecvReturns(w) == chan[w] # <<>> \/ Disconnected(w)

\* the result a receive yields: .ok() maps Empty and Disconnected to None
Received(w) == IF chan[w] # <<>> THEN Some(Head(chan[w])) ELSE None

AfterPeek(w) == chan[w]

\* a successful receive takes the result out of the channel
AfterReceive(w) == Tail(chan[w])

NewDiffUnclamped(diff, result, started) == diff - result.simulated_time + (now - started)

ElapsedNone(started) == 0
\* task.rs:107  `time.elapsed() - task.started_at_render_time`
Elapsed(started) == now - started

\* task.rs:106-117
NewDiff(diff, result, started) ==
    LET d == diff - result.simulated_time + Elapsed(started)
    IN  IF d < 0 THEN 0 ELSE d

\* task.rs:102-105: the parts of the World that the result overwrites
AppliedContext(w, result) == result.context
AppliedBodies(w, result) == result.bodies
AppliedColliders(w, result) == result.colliders
AppliedQueryPipeline(w, result) == result.query_pipeline
\* the query of handle_tasks holds no RapierContextJoints: result.joints is dropped
AppliedJoints(w, result) == joints[w]

EventSourceBeforeWrite(w, result) == context[w]
\* task.rs:102, 118: send_bevy_events is called on the World's component after the
\* context of the result was written into it
EventSource(w, result) == AppliedContext(w, result)

\* task.rs:133
Counted(t) == [t EXCEPT !.render_frames_elapsed = @ + 1]

HandleTasks ==
    /\ Sys = "handle_tasks"
    /\ \A w \in Worlds : (IsSome(task[w]) /\ BlocksOn(Unwrap(task[w]))) => RecvReturns(w)
    /\ LET has(w) == IsSome(task[w])
           got(w) == has(w) /\ IsSome(Received(w))
           res(w) == Unwrap(Received(w))
       IN  /\ context' = [w \in Worlds |->
                  IF got(w) THEN AppliedContext(w, res(w)) ELSE context[w]]
           /\ bodies' = [w \in Worlds |->
                  IF got(w) THEN AppliedBodies(w, res(w)) ELSE bodies[w]]
           /\ colliders' = [w \in Worlds |->
                  IF got(w) THEN AppliedColliders(w, res(w)) ELSE colliders[w]]
           /\ query_pipeline' = [w \in Worlds |->
                  IF got(w) THEN AppliedQueryPipeline(w, res(w)) ELSE query_pipeline[w]]
           /\ joints' = [w \in Worlds |->
                  IF got(w) THEN AppliedJoints(w, res(w)) ELSE joints[w]]
           /\ sim_to_render_time' = [w \in Worlds |->
                  IF got(w)
                  THEN NewDiff(sim_to_render_time[w], res(w),
                               Unwrap(task[w]).started_at_render_time)
                  ELSE sim_to_render_time[w]]
           /\ chan' = [w \in Worlds |-> IF got(w) THEN AfterReceive(w) ELSE chan[w]]
           /\ commands' = [w \in Worlds |->
                  IF got(w) THEN Append(commands[w], [op |-> "remove"]) ELSE commands[w]]
           /\ collected' = [w \in Worlds |-> IF got(w) THEN collected[w] + 1 ELSE collected[w]]
           /\ events' = [w \in Worlds |-> IF got(w) THEN <<EventSource(w, res(w))>> ELSE <<>>]
           /\ task' = [w \in Worlds |->
                  IF has(w) THEN Some(Counted(Unwrap(task[w]))) ELSE task[w]]
           /\ polled' = [w \in Worlds |->
                  IF ~has(w) THEN "none"
                  ELSE IF BlocksOn(Unwrap(task[w])) THEN "recv" ELSE "try_recv"]
    /\ Advance
    /\ UNCHANGED <<clockVars, accessed, modeVars, flagVars, workers, dispatched, dispatch_limit, config, mapVars,
                   ecsVars, syncVars, hierVars>>

(***************************************************************************)
(* spawn_simulation_task                                                   *)
(***************************************************************************)
EligibleAlways(w) == TRUE

\* task.rs:154  Without<SimulationTask>
Eligible(w) == task[w] = None

DispatchesWhenAllIdle(w) ==
    /\ \A v \in Worlds : task[v] = None
    /\ dispatched[w] < dispatch_limit[w]
\* task.rs:166-176: every World the query yields is dispatched
Dispatches(w) == Eligible(w) /\ dispatched[w] < dispatch_limit[w]

\* task.rs:178-190: the simulation context is swapped out, the rest is cloned
WorkerInput(w) ==
    [context |-> context[w],
     colliders |-> colliders[w],
     bodies |-> bodies[w],
     joints |-> joints[w],
     query_pipeline |-> query_pipeline[w],
     config |-> config[w],
     sim_to_render_time |-> sim_to_render_time[w]]

ContextCloned(w) == context[w]

\* task.rs:178-179  mem::swap(&mut context, &mut *context_ecs) with a default context
ContextAfterDispatch(w) == DefaultContext

\* task.rs:239-243
NewTask == [started_at_render_time |-> now, render_frames_elapsed |-> 0]

SpawnSimulationTask ==
    /\ Sys = "spawn_simulation_task"
    /\ workers' = [w \in Worlds |->
           IF Dispatches(w) THEN Append(workers[w], WorkerInput(w)) ELSE workers[w]]
    /\ context' = [w \in Worlds |->
           IF Dispatches(w) THEN ContextAfterDispatch(w) ELSE context[w]]
    /\ chan' = [w \in Worlds |-> IF Dispatches(w) THEN <<>> ELSE chan[w]]
    /\ commands' = [w \in Worlds |->
           IF Dispatches(w)
           THEN Append(commands[w], [op |-> "insert", task |-> NewTask])
           ELSE commands[w]]
    /\ dispatched' = [w \in Worlds |-> IF Dispatches(w) THEN dispatched[w] + 1 ELSE dispatched[w]]
    /\ Advance
    /\ UNCHANGED <<clockVars, eventVars, modeVars, flagVars, task, polled, collected, dispatch_limit, bodies, colliders,
                   joints, query_pipeline, driftVars, mapVars, ecsVars, syncVars, hierVars>>

(***************************************************************************)
(* The worker: the async block of spawn_simulation_task                    *)
(***************************************************************************)
\* task.rs:203-219: the number of calls of step_simulation
RECURSIVE Tries(_, _, _, _)
TriesAlwaysThree(i, time_to_catch_up, simulated_time, dt) == max_tries_to_catch_up
Tries(i, time_to_catch_up, simulated_time, dt) ==
    IF i = max_tries_to_catch_up \/ time_to_catch_up < simulated_time
    THEN i
    ELSE Tries(i + 1, time_to_catch_up, simulated_time + dt, dt)

RECURSIVE Times(_, _)
Times(n, part) == IF n = 0 THEN part ELSE Times(n - 1, Stepped(part))

WorkerResultStepping(in, dt) ==
    LET n == Tries(0, in.sim_to_render_time, 0, dt)
        cols == Times(n, in.colliders)
    IN  [context |-> Times(n, in.context),
         bodies |-> Times(n, in.bodies),
         joints |-> Times(n, in.joints),
         colliders |-> cols,
         query_pipeline |-> IF in.config.query_pipeline_active
                            THEN [set |-> cols.set, rev |-> cols.rev]
                            ELSE in.query_pipeline,
         simulated_time |-> n * dt]
\* task.rs:196-236
WorkerResult(in, dt) ==
    LET active == in.config.physics_pipeline_active
        n == IF active THEN Tries(0, in.sim_to_render_time, 0, dt) ELSE 0
        cols == IF active THEN Times(n, in.colliders) ELSE Stepped(in.colliders)
    IN  [context |-> Times(n, in.context),
         bodies |-> Times(n, in.bodies),
         joints |-> Times(n, in.joints),
         colliders |-> cols,
         query_pipeline |-> IF in.config.query_pipeline_active
                            THEN [set |-> cols.set, rev |-> cols.rev]
                            ELSE in.query_pipeline,
         simulated_time |-> n * dt]

WorkerRun(w) ==
    /\ workers[w] # <<>>
    /\ \E dt \in StepDeltas :
           chan' = [chan EXCEPT ![w] = Append(@, WorkerResult(Head(workers[w]), dt))]
    /\ workers' = [workers EXCEPT ![w] = Tail(@)]
    /\ UNCHANGED <<schedule, pc, clockVars, eventVars, modeVars, flagVars, task, commands, polled, dispatched, collected,
                   dispatch_limit, worldVars, driftVars, mapVars, ecsVars, syncVars, hierVars>>

\* task.rs:196-236: the task ends before `sender.send` (a panic inside the step): the
\* sender is dropped with the task and nothing is sent
WorkerFails(w) ==
    /\ workers[w] # <<>>
    /\ workers' = [workers EXCEPT ![w] = Tail(@)]
    /\ UNCHANGED <<schedule, pc, clockVars, eventVars, modeVars, flagVars, task, commands, chan, polled, dispatched,
                   collected, dispatch_limit, worldVars, driftVars, mapVars, ecsVars, syncVars,
                   hierVars>>

(***************************************************************************)
(* sync_removals                                                           *)
(***************************************************************************)
WorldOrders == {o \in [1..Cardinality(Worlds) -> Worlds] : \A w \in Worlds : \E i \in DOMAIN o : o[i] = w}

\* remove.rs:231-239  find_map over the Worlds in iteration order: the first World
\* whose map holds the entity
Found(map, e) == \E w \in Worlds : e \in map[w]
FirstWorld(order, map, e) ==
    order[CHOOSE i \in DOMAIN order :
              /\ e \in map[order[i]]
              /\ \A j \in DOMAIN order : j < i => e \notin map[order[j]]]
FindContextFirst(order, map, e) == Some(order[1])
find_context_entity(order, map, e) ==
    IF Found(map, e) THEN Some(FirstWorld(order, map, e)) ELSE None

\* the entities of E whose map entry find_context_entity takes out of World w
Taken(order, map, E, w) ==
    {e \in E : find_context_entity(order, map, e) = Some(w)}

\* the World state sync_removals works on
Registry ==
    [e2b |-> entity2body, e2c |-> entity2collider, e2i |-> entity2impulse_joint,
     e2m |-> entity2multibody_joint, bodies |-> bodies, colliders |-> colliders,
     joints |-> joints, deleted |-> deleted_colliders, mass |-> {}, log |-> <<>>,
     skipped |-> {}]

\* rapier RigidBodySet::remove(handle, islands, colliders, impulse_joints,
\* multibody_joints, remove_attached_colliders = false) for every handle of gone: the
\* body leaves the set, its colliders are detached, the joints attached to it are removed
BodySetRemove(r, w, gone) ==
    LET live == gone \cap r.bodies[w].set
    IN  [bodies |-> [r.bodies[w] EXCEPT !.set = @ \ gone, !.disabled = @ \ gone],
         colliders |-> [r.colliders[w] EXCEPT !.parent = {p \in @ : p[2] \notin live}],
         joints |-> [r.joints[w] EXCEPT
                        !.impulse = {j \in @ : j[2] \notin live /\ j[3] \notin live},
                        !.multibody = {j \in @ : j[2] \notin live /\ j[3] \notin live}]]

\* rapier ColliderSet::remove(handle, islands, bodies, true)
ColliderSetRemove(r, w, gone) ==
    [r.colliders[w] EXCEPT !.set = @ \ gone, !.parent = {p \in @ : p[1] \notin gone},
                           !.sensor = @ \ gone, !.disabled = @ \ gone]

\* rapier ImpulseJointSet::remove(handle, true)
ImpulseJointSetRemove(r, w, gone) ==
    [r.joints[w] EXCEPT !.impulse = {j \in @ : j[1] \notin gone}]

\* rapier MultibodyJointSet::remove(handle, true)
MultibodyJointSetRemove(r, w, gone) ==
    [r.joints[w] EXCEPT !.multibody = {j \in @ : j[1] \notin gone}]

\* RapierContext::collider_parent(entity): the entity of the body that the entity's
\* collider is attached to, looked up through the entity-to-collider map e2c
collider_parent(e2c, cols, e) ==
    {p[2] : p \in {q \in cols.parent : q[1] = e /\ e \in e2c}}

\* remove.rs:49-52, 92-95, 132-134, 155-157: the signals of an explicit-removal loop for
\* which find_context_entity returned None; the loop goes on with the next signal
Skipped(phase, how, t, E) ==
    IF how = "removed" THEN {<<phase, e>> : e \in E \ UNION {t[w] : w \in Worlds}} ELSE {}

\* the entries one loop adds to the log: one for every entity whose World was found
Logged(phase, how, t) ==
    [i \in 1..Cardinality(UNION {t[w] : w \in Worlds}) |->
        [phase |-> phase, how |-> how, ent |-> Listed(UNION {t[w] : w \in Worlds})[i]]]

\* remove.rs:46-82: the map entry is taken out, then the body is removed
RemoveBodies(r, order, E, how) ==
    LET t == [w \in Worlds |-> Taken(order, r.e2b, E, w)]
        cut == [w \in Worlds |-> BodySetRemove(r, w, t[w])]
    IN  [r EXCEPT !.e2b = [w \in Worlds |-> r.e2b[w] \ t[w]],
                  !.bodies = [w \in Worlds |-> cut[w].bodies],
                  !.colliders = [w \in Worlds |-> cut[w].colliders],
                  !.joints = [w \in Worlds |-> cut[w].joints],
                  !.log = @ \o Logged("body", how, t),
                  !.skipped = @ \cup Skipped("body", how, t, E)]

\* remove.rs:87-124: the map entry is taken out, the parent is looked up, the collider
\* is removed and recorded in deleted_colliders
RemoveColliders(r, order, E, how) ==
    LET t == [w \in Worlds |-> Taken(order, r.e2c, E, w)]
        e2c == [w \in Worlds |-> r.e2c[w] \ t[w]]
        parents == UNION {UNION {collider_parent(e2c[w], r.colliders[w], e) : e \in t[w]} :
                          w \in Worlds}
    IN  [r EXCEPT !.e2c = e2c,
                  !.colliders = [w \in Worlds |-> ColliderSetRemove(r, w, t[w])],
                  !.deleted = [w \in Worlds |-> r.deleted[w] \cup t[w]],
                  !.mass = @ \cup parents,
                  !.log = @ \o Logged("collider", how, t),
                  !.skipped = @ \cup Skipped("collider", how, t, E)]

\* remove.rs:129-147
RemoveImpulseJoints(r, order, E, how) ==
    LET t == [w \in Worlds |-> Taken(order, r.e2i, E, w)]
    IN  [r EXCEPT !.e2i = [w \in Worlds |-> r.e2i[w] \ t[w]],
                  !.joints = [w \in Worlds |-> ImpulseJointSetRemove(r, w, t[w])],
                  !.log = @ \o Logged("impulse_joint", how, t),
                  !.skipped = @ \cup Skipped("impulse_joint", how, t, E)]

\* remove.rs:152-172
RemoveMultibodyJoints(r, order, E, how) ==
    LET t == [w \in Worlds |-> Taken(order, r.e2m, E, w)]
    IN  [r EXCEPT !.e2m = [w \in Worlds |-> r.e2m[w] \ t[w]],
                  !.joints = [w \in Worlds |-> MultibodyJointSetRemove(r, w, t[w])],
                  !.log = @ \o Logged("multibody_joint", how, t),
                  !.skipped = @ \cup Skipped("multibody_joint", how, t, E)]

RemoveSensorColliders(r, order, E) == RemoveColliders(r, order, E, "orphan")
\* remove.rs:177-185: the sensor flag of the collider of every entity that lost its
\* Sensor marker is cleared; the map entry stays
ResetSensors(r, order, E) ==
    LET t == [w \in Worlds |-> Taken(order, r.e2c, E, w) \cap r.colliders[w].set]
    IN  [r EXCEPT !.colliders = [w \in Worlds |-> [r.colliders[w] EXCEPT !.sensor = @ \ t[w]]],
                  !.log = @ \o Logged("flag", "Sensor", t)]

\* remove.rs:187-195: the collider is enabled again
EnableColliders(r, order, E) ==
    LET t == [w \in Worlds |-> Taken(order, r.e2c, E, w) \cap r.colliders[w].set]
    IN  [r EXCEPT !.colliders = [w \in Worlds |->
                                    [r.colliders[w] EXCEPT !.disabled = @ \ t[w]]],
                  !.log = @ \o Logged("flag", "ColliderDisabled", t)]

\* remove.rs:197-205: the body is enabled again
EnableBodies(r, order, E) ==
    LET t == [w \in Worlds |-> Taken(order, r.e2b, E, w) \cap r.bodies[w].set]
    IN  [r EXCEPT !.bodies = [w \in Worlds |-> [r.bodies[w] EXCEPT !.disabled = @ \ t[w]]],
                  !.log = @ \o Logged("flag", "RigidBodyDisabled", t)]

\* remove.rs:29-35  With<handle>, Without<descriptor>
Orphans(k) == handle[k] \ descr[k]

\* sequencing: Op applied to the value of x
Then(x, Op(_)) == CHOOSE y \in {Op(v) : v \in {x}} : TRUE

\* remove.rs:174-205: the flag resets, in the order of the source
FlagsReset(r, order) ==
    Then(ResetSensors(r, order, removed_marker["Sensor"]), LAMBDA f1 :
    Then(EnableColliders(f1, order, removed_marker["ColliderDisabled"]), LAMBDA f2 :
         EnableBodies(f2, order, removed_marker["RigidBodyDisabled"])))

SyncedCollidersFirst(order) ==
    Then(RemoveColliders(Registry, order, removed["collider"], "removed"), LAMBDA c1 :
    Then(RemoveColliders(c1, order, Orphans("collider"), "orphan"), LAMBDA c2 :
    Then(RemoveBodies(c2, order, removed["body"], "removed"), LAMBDA b1 :
    Then(RemoveBodies(b1, order, Orphans("body"), "orphan"), LAMBDA b2 :
    Then(RemoveImpulseJoints(b2, order, removed["impulse_joint"], "removed"), LAMBDA i1 :
    Then(RemoveImpulseJoints(i1, order, Orphans("impulse_joint"), "orphan"), LAMBDA i2 :
    Then(RemoveMultibodyJoints(i2, order, removed["multibody_joint"], "removed"), LAMBDA m1 :
    Then(RemoveMultibodyJoints(m1, order, Orphans("multibody_joint"), "orphan"), LAMBDA m2 :
         FlagsReset(m2, order)))))))))

\* remove.rs:43-205: explicit removals then orphans, kind after kind, then the flags
Synced(order) ==
    Then(RemoveBodies(Registry, order, removed["body"], "removed"), LAMBDA b1 :
    Then(RemoveBodies(b1, order, Orphans("body"), "orphan"), LAMBDA b2 :
    Then(RemoveColliders(b2, order, removed["collider"], "removed"), LAMBDA c1 :
    Then(RemoveColliders(c1, order, Orphans("collider"), "orphan"), LAMBDA c2 :
    Then(RemoveImpulseJoints(c2, order, removed["impulse_joint"], "removed"), LAMBDA i1 :
    Then(RemoveImpulseJoints(i1, order, Orphans("impulse_joint"), "orphan"), LAMBDA i2 :
    Then(RemoveMultibodyJoints(i2, order, removed["multibody_joint"], "removed"), LAMBDA m1 :
    Then(RemoveMultibodyJoints(m1, order, Orphans("multibody_joint"), "orphan"), LAMBDA m2 :
         FlagsReset(m2, order)))))))))

StripNoOrphan == <<>>
\* remove.rs:81, 123, 146, 169-171: the stray handle of every orphan is stripped
StripOrphans ==
    LET strip(k) == IF Orphans(k) = {} THEN <<>>
                    ELSE <<[op |-> "remove", kind |-> k, ents |-> Orphans(k)]>>
    IN  strip("body") \o strip("collider") \o strip("impulse_joint") \o strip("multibody_joint")

SyncRemovals ==
    /\ Sys = "sync_removals"
    /\ \E order \in WorldOrders : \E r \in {Synced(order)} :
             /\ entity2body' = r.e2b
             /\ entity2collider' = r.e2c
             /\ entity2impulse_joint' = r.e2i
             /\ entity2multibody_joint' = r.e2m
             /\ bodies' = r.bodies
             /\ colliders' = r.colliders
             /\ joints' = r.joints
             /\ deleted_colliders' = r.deleted
             /\ mass_modified' = r.mass
             /\ removal_log' = r.log
             /\ no_context' = r.skipped
             /\ touched' = [w \in Worlds |->
                    \/ r.e2b[w] # entity2body[w] \/ r.e2c[w] # entity2collider[w]
                    \/ r.e2i[w] # entity2impulse_joint[w]
                    \/ r.e2m[w] # entity2multibody_joint[w]
                    \/ r.bodies[w] # bodies[w] \/ r.colliders[w] # colliders[w]
                    \/ r.joints[w] # joints[w] \/ r.deleted[w] # deleted_colliders[w]]
    /\ removed' = [k \in Kinds |-> {}]
    /\ removed_marker' = [m \in MarkerKinds |-> {}]
    /\ entity_commands' = entity_commands \o StripOrphans
    /\ Advance
    /\ UNCHANGED <<clockVars, eventVars, modeVars, marker, taskVars, context, query_pipeline, driftVars,
                   descr, handle, host_ops, hierVars>>

(***************************************************************************)
(* Deferred commands                                                       *)
(***************************************************************************)
RECURSIVE ApplyTaskCommands(_, _)
ApplyTaskCommands(t, cs) ==
    IF cs = <<>> THEN t
    ELSE ApplyTaskCommands(IF Head(cs).op = "insert" THEN Some(Head(cs).task) ELSE None,
                           Tail(cs))

\* the components, removal events and change marks after one entity command:
\* removing a component that is present raises a RemovedComponents event, inserting a
\* link marks it changed
ApplyEntityCommand(ecs, c) ==
    CASE c.op = "remove" ->
             [ecs EXCEPT !.handle[c.kind] = @ \ c.ents,
                         !.removed[c.kind] = @ \cup (c.ents \cap ecs.handle[c.kind])]
      [] c.op = "insert_handle" ->
             [ecs EXCEPT !.handle[c.kind] = @ \cup c.ents]
      [] c.op = "insert_link" ->
             [ecs EXCEPT !.link[c.ent] = Some(c.world), !.changed = @ \cup {c.ent}]

RECURSIVE ApplyEntityCommands(_, _)
ApplyEntityCommands(ecs, cs) ==
    IF cs = <<>> THEN ecs
    ELSE ApplyEntityCommands(ApplyEntityCommand(ecs, Head(cs)), Tail(cs))

Flush ==
    /\ task' = [w \in Worlds |-> ApplyTaskCommands(task[w], commands[w])]
    /\ commands' = [w \in Worlds |-> <<>>]
    /\ LET ecs == ApplyEntityCommands([handle |-> handle, removed |-> removed,
                                       link |-> link, changed |-> {}],
                                      entity_commands)
       IN  /\ handle' = ecs.handle
           /\ removed' = ecs.removed
           /\ link' = ecs.link
           /\ link_changed' = [y \in DOMAIN link_changed |-> link_changed[y] \cup ecs.changed]
    /\ entity_commands' = <<>>

\* the end of a system set applies every deferred command
ApplyDeferred ==
    /\ Sys = "apply_deferred"
    /\ Flush
    /\ host_log' = IF pc = Len(schedule) THEN {} ELSE host_log
    /\ Advance
    /\ UNCHANGED <<clockVars, eventVars, modeVars, flagVars, workers, chan, polled, dispatched, collected, dispatch_limit,
                   worldVars, driftVars, mapVars, descr, host_ops, syncVars, treeVars>>

\* a synchronization point the scheduler may place between two systems
SyncPoint ==
    /\ Sys \in {"handle_tasks", "react_before_starting_simulation", "spawn_simulation_task"}
    /\ \E w \in Worlds : commands[w] # <<>>
    /\ Flush
    /\ UNCHANGED <<schedule, pc, clockVars, eventVars, modeVars, flagVars, workers, chan, polled, dispatched, collected,
                   dispatch_limit, worldVars, driftVars, mapVars, descr, host_ops, syncVars,
                   treeVars, host_log>>

(***************************************************************************)
(* The host: the render clock, and the components it removes               *)
(***************************************************************************)
RenderFrame ==
    /\ Sys = "host"
    /\ \E d \in FrameDeltas : now + d <= MaxTime /\ now' = now + d
    /\ Advance
    /\ UNCHANGED <<eventVars, modeVars, flagVars, taskVars, worldVars, driftVars, mapVars, ecsVars, syncVars, hierVars>>

\* the host removes a handle component from a live entity
RemoveHandle(e, k) ==
    /\ Sys = "host"
    /\ host_ops > 0
    /\ e \in handle[k]
    /\ handle' = [handle EXCEPT ![k] = @ \ {e}]
    /\ removed' = [removed EXCEPT ![k] = @ \cup {e}]
    /\ host_ops' = host_ops - 1
    /\ host_log' = host_log \cup {[op |-> "remove", ent |-> e]}
    /\ UNCHANGED <<schedule, pc, clockVars, eventVars, modeVars, flagVars, taskVars, worldVars, driftVars, mapVars, descr,
                   entity_commands, syncVars, linkVars, treeVars>>

\* the host removes a source descriptor and leaves the handle behind
RemoveDescriptor(e, k) ==
    /\ Sys = "host"
    /\ host_ops > 0
    /\ e \in descr[k]
    /\ descr' = [descr EXCEPT ![k] = @ \ {e}]
    /\ host_ops' = host_ops - 1
    /\ host_log' = host_log \cup {[op |-> "remove", ent |-> e]}
    /\ UNCHANGED <<schedule, pc, clockVars, eventVars, modeVars, flagVars, taskVars, worldVars, driftVars, mapVars, handle,
                   removed, entity_commands, syncVars, linkVars, treeVars>>

\* the host removes a marker component (Sensor, ColliderDisabled, RigidBodyDisabled)
RemoveMarker(e, m) ==
    /\ Sys = "host"
    /\ host_ops > 0
    /\ e \in marker[m]
    /\ marker' = [marker EXCEPT ![m] = @ \ {e}]
    /\ removed_marker' = [removed_marker EXCEPT ![m] = @ \cup {e}]
    /\ host_ops' = host_ops - 1
    /\ host_log' = host_log \cup {[op |-> "remove", ent |-> e]}
    /\ UNCHANGED <<schedule, pc, clockVars, eventVars, modeVars, taskVars, worldVars, driftVars, mapVars,
                   descr, handle, removed, entity_commands, syncVars, linkVars, treeVars>>

(***************************************************************************)
(* World-Change Propagator                                                 *)
(***************************************************************************)
\* multiple_rapier_contexts.rs:68-71  the entities the four maps of World w contain
Contained(w) ==
    entity2collider[w] \cup entity2body[w] \cup entity2impulse_joint[w]
        \cup entity2multibody_joint[w]

RemoveOldPhysicsButBody(e) ==
    <<[op |-> "remove", kind |-> "collider", ents |-> {e}],
      [op |-> "remove", kind |-> "multibody_joint", ents |-> {e}],
      [op |-> "remove", kind |-> "impulse_joint", ents |-> {e}]>>

\* multiple_rapier_contexts.rs:43-50
remove_old_physics(e) ==
    <<[op |-> "remove", kind |-> "collider", ents |-> {e}],
      [op |-> "remove", kind |-> "body", ents |-> {e}],
      [op |-> "remove", kind |-> "multibody_joint", ents |-> {e}],
      [op |-> "remove", kind |-> "impulse_joint", ents |-> {e}]>>

\* commands.entity(e).insert(link)
InsertLink(e, w) == <<[op |-> "insert_link", ent |-> e, world |-> w]>>

\* the Children component of e
Children(e) == {c \in Entities : parent[c] = Some(e)}

RECURSIVE Descendants(_)
Descendants(e) == Children(e) \cup UNION {Descendants(c) : c \in Children(e)}

\* the iteration orders of a query over the entities of S
Orders(S) ==
    {o \in [1..Cardinality(S) -> S] : \A i, j \in DOMAIN o : o[i] = o[j] => i = j}

\* multiple_rapier_contexts.rs:90-122: a child already linked to the new World is
\* skipped with everything below it, any other child is stripped, linked and descended
RECURSIVE bubble_down_world_change(_, _)
RECURSIVE BubbleDownChildren(_, _)
RECURSIVE BubbleDownEveryChild(_, _)
bubble_down_world_change(e, w) == BubbleDownChildren(Listed(Children(e)), w)

BubbleDownEveryChild(cs, w) ==
    IF cs = <<>> THEN <<>>
    ELSE remove_old_physics(Head(cs)) \o InsertLink(Head(cs), w)
             \o bubble_down_world_change(Head(cs), w) \o BubbleDownEveryChild(Tail(cs), w)
BubbleDownChildren(cs, w) ==
    IF cs = <<>> THEN <<>>
    ELSE (IF link[Head(cs)] = Some(w) THEN <<>>
          ELSE remove_old_physics(Head(cs)) \o InsertLink(Head(cs), w)
                   \o bubble_down_world_change(Head(cs), w))
         \o BubbleDownChildren(Tail(cs), w)

\* multiple_rapier_contexts.rs:66-76  `q_context.get(link).map(..).unwrap_or(false)`: an
\* entity y without World State contains nothing
AlreadyPartOf(e, y) == IF y \in Worlds THEN e \in Contained(y) ELSE FALSE

\* multiple_rapier_contexts.rs:65-86: the body of the loop for one changed entity
ChangeWorldUnguarded(e) ==
    remove_old_physics(e) \o bubble_down_world_change(e, Unwrap(link[e]))
ChangeWorld(e) ==
    IF AlreadyPartOf(e, Unwrap(link[e])) THEN <<>>
    ELSE remove_old_physics(e) \o bubble_down_world_change(e, Unwrap(link[e]))

RECURSIVE ChangeWorldAll(_)
ChangeWorldAll(order) ==
    IF order = <<>> THEN <<>>
    ELSE ChangeWorld(Head(order)) \o ChangeWorldAll(Tail(order))

\* multiple_rapier_contexts.rs:55-88
OnChangeWorld ==
    /\ Sys = "on_change_world"
    /\ \E order \in Orders({e \in link_changed["on_change_world"] : IsSome(link[e])}) :
           entity_commands' = entity_commands \o ChangeWorldAll(order)
    /\ link_changed' = [link_changed EXCEPT !["on_change_world"] = {}]
    /\ Advance
    /\ UNCHANGED <<clockVars, eventVars, modeVars, flagVars, taskVars, worldVars, driftVars, mapVars, descr, handle, removed,
                   host_ops, syncVars, link, treeVars, host_log>>

\* multiple_rapier_contexts.rs:27-37: the link of the nearest entity, from p upward,
\* that has one
RECURSIVE NearestLink(_)
NearestLink(p) ==
    IF IsSome(link[p]) THEN link[p]
    ELSE IF IsSome(parent[p]) THEN NearestLink(Unwrap(parent[p]))
    ELSE None

AddEntityWithParentKeepsHandles(e) ==
    IF IsSome(NearestLink(Unwrap(parent[e]))) /\ link[e] # NearestLink(Unwrap(parent[e]))
    THEN InsertLink(e, Unwrap(NearestLink(Unwrap(parent[e]))))
    ELSE <<>>

\* multiple_rapier_contexts.rs:26-38: the body of the loop for one entity
AddEntityWithParent(e) ==
    IF IsSome(NearestLink(Unwrap(parent[e]))) /\ link[e] # NearestLink(Unwrap(parent[e]))
    THEN remove_old_physics(e) \o InsertLink(e, Unwrap(NearestLink(Unwrap(parent[e]))))
    ELSE <<>>

RECURSIVE AddEntityWithParentAll(_)
AddEntityWithParentAll(order) ==
    IF order = <<>> THEN <<>>
    ELSE AddEntityWithParent(Head(order)) \o AddEntityWithParentAll(Tail(order))

\* multiple_rapier_contexts.rs:15-21  (Entity, &Parent), With<link>, Or<Changed<link>,
\* Changed<Parent>>
AddedWithParent ==
    {e \in link_changed["on_add_entity_with_parent"] \cup parent_changed :
        IsSome(parent[e]) /\ IsSome(link[e])}

\* multiple_rapier_contexts.rs:14-40
OnAddEntityWithParent ==
    /\ Sys = "on_add_entity_with_parent"
    /\ \E order \in Orders(AddedWithParent) :
           entity_commands' = entity_commands \o AddEntityWithParentAll(order)
    /\ link_changed' = [link_changed EXCEPT !["on_add_entity_with_parent"] = {}]
    /\ parent_changed' = {}
    /\ Advance
    /\ UNCHANGED <<clockVars, eventVars, modeVars, flagVars, taskVars, worldVars, driftVars, mapVars, descr, handle, removed,
                   host_ops, syncVars, link, parent, host_log>>

(***************************************************************************)
(* react_before_starting_simulation: the sub-step heuristic of the example *)
(* background2.  Drift and durations are counted in frame intervals        *)
(* (1/60 s); a duration that need not be a whole number of frames is the   *)
(* fraction num/den.                                                       *)
(***************************************************************************)
\* background2.rs:255  `sim_to_render_time.diff > 0.5f32`, in frames
SoftThreshold == 30
\* background2.rs:266  `sim_to_render_time.diff > 1f32`, in frames
HardThreshold == 60
\* background2.rs:271  `.clamp(10, 40)`
MinSubsteps == 10
MaxSubsteps == 40
\* background2.rs:283  `1.0 / 60.0`, in frames
FrameInterval == 1

\* `(num / den) as usize` for den > 0: the fraction is cut off, a negative one gives 0
AsUsize(num, den) == IF num <= 0 THEN 0 ELSE num \div den

\* usize::clamp
clamp(x, lo, hi) == IF x < lo THEN lo ELSE IF x > hi THEN hi ELSE x

WholeTimeToCatchBack(diff) == [num |-> diff, den |-> 1]

\* background2.rs:265
half_time_to_catch_back(diff) == [num |-> diff, den |-> 2]

ClampedAbove(half, dt) == clamp(AsUsize(half.num * dt.den, half.den * dt.num), 0, MaxSubsteps)

\* background2.rs:270-271
clamped_substeps_runs(half, dt) ==
    clamp(AsUsize(half.num * dt.den, half.den * dt.num), MinSubsteps, MaxSubsteps)

NotForgiven(diff) == diff

\* background2.rs:266-269: a drift above the hard threshold is dropped
Forgiven(diff) == IF diff > HardThreshold THEN 0 ELSE diff

TimeToAdvanceNegativeOnly(diff) ==
    IF diff < 0 THEN (IF FrameInterval + diff < 0 THEN 0 ELSE FrameInterval + diff)
    ELSE FrameInterval

\* background2.rs:283  (1.0 / 60.0 + diff).max(0)
time_to_advance(diff) == IF FrameInterval + diff < 0 THEN 0 ELSE FrameInterval + diff

\* background2.rs:255-285: the sub-step count one iteration writes
NewSubsteps(diff, dt) ==
    IF diff > SoftThreshold
    THEN clamped_substeps_runs(half_time_to_catch_back(diff), dt)
    ELSE AsUsize(time_to_advance(diff) * dt.den, dt.num)

\* background2.rs:255-285: the drift one iteration leaves
NewDrift(diff) == IF diff > SoftThreshold THEN Forgiven(diff) ELSE diff

ReactVisitsAll(w) == TRUE

\* background2.rs:249  Without<SimulationTask>
ReactVisits(w) == task[w] = None

\* background2.rs:247-288: the Worlds are visited in the order of the query; every
\* iteration writes the sub-step count of the one TimestepMode resource
ReactBeforeStartingSimulation ==
    /\ Sys = "react_before_starting_simulation"
    /\ \E order \in Orders({w \in Worlds : ReactVisits(w)}) :
           LET fixed == timestep_mode.mode = "FixedSubsteps"
               dt == timestep_mode.substep_dt
               acts(w) == fixed /\ ReactVisits(w)
           IN  /\ timestep_mode' =
                      IF fixed /\ order # <<>>
                      THEN [timestep_mode EXCEPT !.substeps =
                               NewSubsteps(sim_to_render_time[order[Len(order)]], dt)]
                      ELSE timestep_mode
               /\ sim_to_render_time' = [w \in Worlds |->
                      IF acts(w) THEN NewDrift(sim_to_render_time[w])
                      ELSE sim_to_render_time[w]]
               /\ reacted' = [w \in Worlds |->
                      IF acts(w) THEN Some(NewSubsteps(sim_to_render_time[w], dt)) ELSE None]
    /\ Advance
    /\ UNCHANGED <<clockVars, eventVars, flagVars, taskVars, worldVars, config, mapVars, ecsVars, syncVars,
                   hierVars>>

(***************************************************************************)
(* The object-initialization systems (external collaborator)               *)
(***************************************************************************)
\* the entities that hold a descriptor of kind k, no handle of that kind, and a link
Uninitialized(k, w) == {e \in descr[k] \ handle[k] : link[e] = Some(w)}

\* the body a new collider is attached to: the nearest entity, from e upward, with a body
RECURSIVE NearestBody(_, _)
NearestBody(e, B) ==
    IF e \in B THEN {e}
    ELSE IF IsSome(parent[e]) THEN NearestBody(Unwrap(parent[e]), B)
    ELSE {}

\* the body the joints of the scene are anchored to
JointAnchor == "e1"

InsertHandles(k) ==
    LET es == UNION {Uninitialized(k, w) \cap
                     (CASE k = "body" -> entity2body'[w]
                        [] k = "collider" -> entity2collider'[w]
                        [] k = "impulse_joint" -> entity2impulse_joint'[w]
                        [] k = "multibody_joint" -> entity2multibody_joint'[w]) : w \in Worlds}
    IN  IF es = {} THEN <<>> ELSE <<[op |-> "insert_handle", kind |-> k, ents |-> es]>>

\* creates, in the World its link names, the object of every descriptor without handle
InitObjects ==
    /\ Sys = "init"
    /\ entity2body' = [w \in Worlds |-> entity2body[w] \cup Uninitialized("body", w)]
    /\ bodies' = [w \in Worlds |->
           [bodies[w] EXCEPT
               !.set = @ \cup Uninitialized("body", w),
               !.disabled = @ \cup (Uninitialized("body", w) \cap marker["RigidBodyDisabled"])]]
    /\ entity2collider' =
           [w \in Worlds |-> entity2collider[w] \cup Uninitialized("collider", w)]
    /\ colliders' = [w \in Worlds |->
           [colliders[w] EXCEPT
               !.set = @ \cup Uninitialized("collider", w),
               !.sensor = @ \cup (Uninitialized("collider", w) \cap marker["Sensor"]),
               !.disabled = @ \cup (Uninitialized("collider", w) \cap marker["ColliderDisabled"]),
               !.parent = @ \cup UNION {{<<e, b>> : b \in NearestBody(e, entity2body'[w])} :
                                        e \in Uninitialized("collider", w)}]]
    /\ LET jointed(k, w) == {e \in Uninitialized(k, w) :
                                {e, JointAnchor} \subseteq entity2body'[w]}
       IN  /\ entity2impulse_joint' = [w \in Worlds |->
                  entity2impulse_joint[w] \cup jointed("impulse_joint", w)]
           /\ entity2multibody_joint' = [w \in Worlds |->
                  entity2multibody_joint[w] \cup jointed("multibody_joint", w)]
           /\ joints' = [w \in Worlds |->
                  [joints[w] EXCEPT
                      !.impulse = @ \cup {<<e, JointAnchor, e>> :
                                             e \in jointed("impulse_joint", w)},
                      !.multibody = @ \cup {<<e, JointAnchor, e>> :
                                               e \in jointed("multibody_joint", w)}]]
    /\ entity_commands' = entity_commands \o InsertHandles("body") \o InsertHandles("collider")
                              \o InsertHandles("impulse_joint")
                              \o InsertHandles("multibody_joint")
    /\ Advance
    /\ UNCHANGED <<clockVars, eventVars, modeVars, flagVars, taskVars, context, query_pipeline, driftVars, deleted_colliders,
                   descr, handle, removed, host_ops, syncVars, hierVars>>

(***************************************************************************)
(* The host: links and parents                                             *)
(***************************************************************************)
\* the host writes the link of an entity
SetLink(e, w) ==
    /\ Sys = "host"
    /\ host_ops > 0
    /\ link[e] # Some(w)
    /\ link' = [link EXCEPT ![e] = Some(w)]
    /\ link_changed' = [y \in DOMAIN link_changed |-> link_changed[y] \cup {e}]
    /\ host_ops' = host_ops - 1
    /\ host_log' = host_log \cup {[op |-> "link", ent |-> e]}
    /\ UNCHANGED <<schedule, pc, clockVars, eventVars, modeVars, flagVars, taskVars, worldVars, driftVars, mapVars, descr,
                   handle, removed, entity_commands, syncVars, treeVars>>

\* the host makes e a child of p
Reparent(e, p) ==
    /\ Sys = "host"
    /\ host_ops > 0
    /\ parent[e] # Some(p)
    /\ p \notin Descendants(e) \cup {e}
    /\ parent' = [parent EXCEPT ![e] = Some(p)]
    /\ parent_changed' = parent_changed \cup {e}
    /\ host_ops' = host_ops - 1
    /\ host_log' = host_log \cup {[op |-> "parent", ent |-> e]}
    /\ UNCHANGED <<schedule, pc, clockVars, eventVars, modeVars, flagVars, taskVars, worldVars, driftVars, mapVars, descr,
                   handle, removed, entity_commands, syncVars, linkVars>>

(***************************************************************************)
(* RapierContextAccess: looking up a World through a link                  *)
(***************************************************************************)
\* rapier_context_access.rs:64, 92
ExpectMessage == "RapierContextEntityLink.0 refers to an entity without RapierContext."

\* Query<&RapierContext>::get: the entities with World State are the Worlds
rapier_context_get(y) == IF y \in Worlds THEN Some(y) ELSE None

\* Result::expect: the value, or a panic with the message
expect(o, msg) ==
    IF IsSome(o) THEN [world |-> o, panic |-> None] ELSE [world |-> None, panic |-> Some(msg)]

ContextOrDefault(y) ==
    [world |-> IF y \in Worlds THEN Some(y) ELSE Some("w1"), panic |-> None]
\* rapier_context_access.rs:61-65  RapierContextAccess::context
RapierContextAccess_context(y) == expect(rapier_context_get(y), ExpectMessage)

\* rapier_context_access.rs:89-94  RapierContextAccessMut::context
RapierContextAccessMut_context(y) == expect(rapier_context_get(y), ExpectMessage)

\* a system of the host looks up the World of the link of entity e, mutably or not
Access(e, mutable) ==
    /\ Sys = "host"
    /\ IsSome(link[e])
    /\ accessed' = Some([link |-> Unwrap(link[e]),
                         mutable |-> mutable,
                         result |-> IF mutable
                                    THEN RapierContextAccessMut_context(Unwrap(link[e]))
                                    ELSE RapierContextAccess_context(Unwrap(link[e]))])
    /\ accessed' # accessed
    /\ UNCHANGED <<schedule, pc, clockVars, events, modeVars, flagVars, taskVars, worldVars, driftVars, mapVars,
                   ecsVars, syncVars, hierVars>>

(***************************************************************************)
(* Initial states                                                          *)
(***************************************************************************)
\* a scene the initialization systems have built in World w1: e1 is a body with its
\* collider, e2 a body with an impulse joint to e1, e3 a collider attached to e1's
\* body, e4 a body with a multibody joint to e1
SceneDescr ==
    [k \in Kinds |->
        CASE k = "body" -> {"e1", "e2", "e4"}
          [] k = "collider" -> {"e1", "e3"}
          [] k = "impulse_joint" -> {"e2"}
          [] k = "multibody_joint" -> {"e4"}]

\* e3's collider is a sensor, e1's collider and e2's body are disabled
SceneMarker ==
    [m \in MarkerKinds |->
        CASE m = "Sensor" -> {"e3"}
          [] m = "ColliderDisabled" -> {"e1"}
          [] m = "RigidBodyDisabled" -> {"e2"}]

\* e2 and e3 are children of e1, e4 is a child of e2
SceneParent ==
    [e \in Entities |->
        CASE e = "e1" -> None
          [] e = "e2" -> Some("e1")
          [] e = "e3" -> Some("e1")
          [] e = "e4" -> Some("e2")]

SceneRegistry ==
    /\ bodies = [w \in Worlds |->
           [set |-> IF w = "w1" THEN SceneDescr["body"] ELSE {},
            disabled |-> IF w = "w1" THEN SceneMarker["RigidBodyDisabled"] ELSE {},
            rev |-> 0]]
    /\ colliders = [w \in Worlds |->
           [set |-> IF w = "w1" THEN SceneDescr["collider"] ELSE {},
            parent |-> IF w = "w1" THEN {<<"e1", "e1">>, <<"e3", "e1">>} ELSE {},
            sensor |-> IF w = "w1" THEN SceneMarker["Sensor"] ELSE {},
            disabled |-> IF w = "w1" THEN SceneMarker["ColliderDisabled"] ELSE {},
            rev |-> 0]]
    /\ joints = [w \in Worlds |->
           [impulse |-> IF w = "w1" THEN {<<"e2", "e1", "e2">>} ELSE {},
            multibody |-> IF w = "w1" THEN {<<"e4", "e1", "e4">>} ELSE {},
            rev |-> 0]]
    /\ entity2body = [w \in Worlds |-> IF w = "w1" THEN SceneDescr["body"] ELSE {}]
    /\ entity2collider = [w \in Worlds |-> IF w = "w1" THEN SceneDescr["collider"] ELSE {}]
    /\ entity2impulse_joint =
           [w \in Worlds |-> IF w = "w1" THEN SceneDescr["impulse_joint"] ELSE {}]
    /\ entity2multibody_joint =
           [w \in Worlds |-> IF w = "w1" THEN SceneDescr["multibody_joint"] ELSE {}]

InitScene ==
    /\ SceneRegistry
    /\ descr = SceneDescr
    /\ handle = SceneDescr
    /\ removed = [k \in Kinds |-> {}]
    /\ entity_commands = <<>>
    /\ deleted_colliders = [w \in Worlds |-> {}]
    /\ mass_modified = {}
    /\ touched = [w \in Worlds |-> FALSE]
    /\ removal_log = <<>>
    /\ no_context = {}
    /\ marker = SceneMarker
    /\ removed_marker = [m \in MarkerKinds |-> {}]
    /\ link = [e \in Entities |-> Some("w1")]
    /\ parent = SceneParent
    /\ link_changed = [y \in PropagatorSystems |-> {}]
    /\ parent_changed = {}
    /\ host_log = {}

InitScheduler ==
    /\ task = [w \in Worlds |-> None]
    /\ commands = [w \in Worlds |-> <<>>]
    /\ workers = [w \in Worlds |-> <<>>]
    /\ chan = [w \in Worlds |-> <<>>]
    /\ context = [w \in Worlds |-> DefaultContext]
    /\ query_pipeline = [w \in Worlds |-> [set |-> colliders[w].set, rev |-> 0]]
    /\ config = [w \in Worlds |-> [physics_pipeline_active |-> TRUE,
                                   query_pipeline_active |-> TRUE]]
    /\ polled = [w \in Worlds |-> "none"]
    /\ dispatched = [w \in Worlds |-> 0]
    /\ collected = [w \in Worlds |-> 0]
    /\ events = [w \in Worlds |-> <<>>]
    /\ accessed = None

\* background2.rs:24-29: the example starts with one sub-step of one frame interval
MainTimestepMode ==
    [mode |-> "FixedSubsteps", substep_dt |-> [num |-> 1, den |-> 1], substeps |-> 1]

\* no drift, and the heuristic has not run yet
InitDrift ==
    /\ sim_to_render_time = [w \in Worlds |-> 0]
    /\ timestep_mode = MainTimestepMode
    /\ reacted = [w \in Worlds |-> None]

(***************************************************************************)
(* Spec: the scheduler alone, two Worlds                                   *)
(***************************************************************************)
SchedulerSchedule == <<"host", "handle_tasks", "spawn_simulation_task", "apply_deferred">>

Init ==
    /\ schedule = SchedulerSchedule
    /\ pc = 1
    /\ InitScene
    /\ InitScheduler
    /\ InitDrift
    /\ now = 0
    /\ dispatch_limit = [w \in Worlds |-> IF w = "w1" THEN MaxDispatch ELSE 1]
    /\ host_ops = MaxHostOps

Next ==
    \/ RenderFrame
    \/ HandleTasks
    \/ SpawnSimulationTask
    \/ ApplyDeferred
    \/ SyncPoint
    \/ \E w \in Worlds : WorkerRun(w)

Spec == Init /\ [][Next]_vars

(***************************************************************************)
(* SpecRemove: the Removal/Orphan Synchronizer alone                       *)
(***************************************************************************)
RemoveSchedule == <<"host", "sync_removals", "apply_deferred">>

\* sync_removals does not read the render clock: it stands still
InitRemove ==
    /\ schedule = RemoveSchedule
    /\ pc = 1
    /\ InitScene
    /\ InitScheduler
    /\ InitDrift
    /\ now = MaxTime
    /\ dispatch_limit = [w \in Worlds |-> 0]
    /\ host_ops = MaxHostOps

NextRemove ==
    \/ RenderFrame
    \/ \E e \in Entities, k \in Kinds : RemoveHandle(e, k)
    \/ \E e \in Entities, k \in Kinds : RemoveDescriptor(e, k)
    \/ \E e \in Entities, m \in MarkerKinds : RemoveMarker(e, m)
    \/ SyncRemovals
    \/ ApplyDeferred

SpecRemove == InitRemove /\ [][NextRemove]_vars

(***************************************************************************)
(* FairSpec: the update loop keeps cycling and every worker task runs      *)
(***************************************************************************)
Coordinator == RenderFrame \/ HandleTasks \/ SpawnSimulationTask \/ ApplyDeferred

\* every World is dispatched once
InitFair ==
    /\ InitScene
    /\ InitScheduler
    /\ InitDrift
    /\ now = 0
    /\ schedule = SchedulerSchedule
    /\ pc = 1
    /\ dispatch_limit = [w \in Worlds |-> 1]
    /\ host_ops = MaxHostOps

FairSpec ==
    /\ InitFair
    /\ [][Next]_vars
    /\ WF_vars(Coordinator)
    /\ \A w \in Worlds : WF_vars(WorkerRun(w))

(***************************************************************************)
(* SpecFlight: removals by the host while a step of the World is in flight *)
(***************************************************************************)
FlightSchedule ==
    <<"host", "sync_removals", "handle_tasks", "spawn_simulation_task", "apply_deferred">>

\* the World that holds the scene is dispatched once, the empty World never
InitFlight ==
    /\ schedule = FlightSchedule
    /\ pc = 1
    /\ InitScene
    /\ InitScheduler
    /\ InitDrift
    /\ now = 0
    /\ dispatch_limit = [w \in Worlds |-> IF w = "w1" THEN 1 ELSE 0]
    /\ host_ops = 1

NextFlight ==
    \/ RenderFrame
    \/ \E e \in Entities, k \in Kinds : RemoveHandle(e, k)
    \/ \E e \in Entities, k \in Kinds : RemoveDescriptor(e, k)
    \/ SyncRemovals
    \/ HandleTasks
    \/ SpawnSimulationTask
    \/ ApplyDeferred
    \/ SyncPoint
    \/ \E w \in Worlds : WorkerRun(w)

SpecFlight == InitFlight /\ [][NextFlight]_vars

(***************************************************************************)
(* SpecLink: the host moves entities between Worlds and in the hierarchy   *)
(***************************************************************************)
LinkSchedule ==
    <<"host", "on_add_entity_with_parent", "apply_deferred", "on_change_world",
      "apply_deferred", "sync_removals", "apply_deferred", "init", "apply_deferred">>

\* the propagator does not read the render clock: it stands still
InitLink ==
    /\ schedule = LinkSchedule
    /\ pc = 1
    /\ InitScene
    /\ InitScheduler
    /\ InitDrift
    /\ now = MaxTime
    /\ dispatch_limit = [w \in Worlds |-> 0]
    /\ host_ops = MaxLinkOps

NextLink ==
    \/ RenderFrame
    \/ \E e \in Entities, w \in Worlds : SetLink(e, w)
    \/ \E e \in Entities, p \in Entities : Reparent(e, p)
    \/ \E e \in Entities, k \in Kinds : RemoveHandle(e, k)
    \/ \E e \in Entities, k \in Kinds : RemoveDescriptor(e, k)
    \/ OnAddEntityWithParent
    \/ OnChangeWorld
    \/ SyncRemovals
    \/ InitObjects
    \/ ApplyDeferred

SpecLink == InitLink /\ [][NextLink]_vars

\* the systems of the cycle, and the host letting a frame pass
LinkCycle ==
    \/ RenderFrame
    \/ OnAddEntityWithParent
    \/ OnChangeWorld
    \/ SyncRemovals
    \/ InitObjects
    \/ ApplyDeferred

\* the update cycle keeps running; the host changes links and parents MaxLinkOps times
\* at most
InitSettle ==
    /\ schedule = LinkSchedule
    /\ pc = 1
    /\ InitScene
    /\ InitScheduler
    /\ InitDrift
    /\ now = MaxTime
    /\ dispatch_limit = [w \in Worlds |-> 0]
    /\ host_ops = 2

FairLink == InitSettle /\ [][NextLink]_vars /\ WF_vars(LinkCycle)

(***************************************************************************)
(* SpecReact: the scheduler with the sub-step heuristic of background2     *)
(***************************************************************************)
\* background2.rs:44-53: the heuristic runs after the step is collected and before the
\* next one is started
ReactSchedule ==
    <<"host", "handle_tasks", "react_before_starting_simulation", "spawn_simulation_task",
      "apply_deferred">>

\* the timestep modes: the sub-stepped one with a step of a half, one or two frame
\* intervals, and the other variants
TimestepModes ==
    {[mode |-> "FixedSubsteps", substep_dt |-> [num |-> n, den |-> d], substeps |-> 1] :
        <<n, d>> \in {<<1, 1>>, <<1, 2>>, <<2, 1>>}}
    \cup {[mode |-> m, substep_dt |-> [num |-> 1, den |-> 1], substeps |-> 1] :
             m \in {"Variable", "Interpolated"}}

\* the drift a World starts with, in frames: ahead, on time, behind by less than the
\* soft threshold, between the thresholds, beyond the hard threshold
Drifts == {-90, -1, 0, 24, 30, 31, 36, 60, 61, 90}

InitReact ==
    /\ schedule = ReactSchedule
    /\ pc = 1
    /\ InitScene
    /\ InitScheduler
    /\ now = 0
    /\ sim_to_render_time \in [Worlds -> Drifts]
    /\ sim_to_render_time["w2"] \in {-1, 36, 90}
    /\ timestep_mode \in TimestepModes
    /\ reacted = [w \in Worlds |-> None]
    /\ dispatch_limit = [w \in Worlds |-> IF w = "w1" THEN 1 ELSE 0]
    /\ host_ops = 0

NextReact ==
    \/ RenderFrame
    \/ HandleTasks
    \/ ReactBeforeStartingSimulation
    \/ SpawnSimulationTask
    \/ ApplyDeferred
    \/ SyncPoint
    \/ \E w \in Worlds : WorkerRun(w)

SpecReact == InitReact /\ [][NextReact]_vars

(***************************************************************************)
(* SpecAdopt: SpecLink with an entity that starts without a World Link     *)
(***************************************************************************)
\* the entity that starts bare: no link, no parent, no physics component
Newcomer == "e4"

InitAdopt ==
    /\ schedule = LinkSchedule
    /\ pc = 1
    /\ bodies = [w \in Worlds |->
           [set |-> IF w = "w1" THEN SceneDescr["body"] \ {Newcomer} ELSE {},
            disabled |-> IF w = "w1" THEN SceneMarker["RigidBodyDisabled"] ELSE {},
            rev |-> 0]]
    /\ colliders = [w \in Worlds |->
           [set |-> IF w = "w1" THEN SceneDescr["collider"] ELSE {},
            parent |-> IF w = "w1" THEN {<<"e1", "e1">>, <<"e3", "e1">>} ELSE {},
            sensor |-> IF w = "w1" THEN SceneMarker["Sensor"] ELSE {},
            disabled |-> IF w = "w1" THEN SceneMarker["ColliderDisabled"] ELSE {},
            rev |-> 0]]
    /\ joints = [w \in Worlds |->
           [impulse |-> IF w = "w1" THEN {<<"e2", "e1", "e2">>} ELSE {},
            multibody |-> {},
            rev |-> 0]]
    /\ entity2body = [w \in Worlds |-> bodies[w].set]
    /\ entity2collider = [w \in Worlds |-> colliders[w].set]
    /\ entity2impulse_joint = [w \in Worlds |-> IF w = "w1" THEN {"e2"} ELSE {}]
    /\ entity2multibody_joint = [w \in Worlds |-> {}]
    /\ descr = [k \in Kinds |-> SceneDescr[k] \ {Newcomer}]
    /\ handle = descr
    /\ removed = [k \in Kinds |-> {}]
    /\ entity_commands = <<>>
    /\ deleted_colliders = [w \in Worlds |-> {}]
    /\ mass_modified = {}
    /\ touched = [w \in Worlds |-> FALSE]
    /\ removal_log = <<>>
    /\ no_context = {}
    /\ marker = SceneMarker
    /\ removed_marker = [m \in MarkerKinds |-> {}]
    /\ link = [e \in Entities |-> IF e = Newcomer THEN None ELSE Some("w1")]
    /\ parent = [e \in Entities |-> IF e = Newcomer THEN None ELSE SceneParent[e]]
    /\ link_changed = [y \in PropagatorSystems |-> {}]
    /\ parent_changed = {}
    /\ host_log = {}
    /\ InitScheduler
    /\ InitDrift
    /\ now = MaxTime
    /\ dispatch_limit = [w \in Worlds |-> 0]
    /\ host_ops = 3

SpecAdopt == InitAdopt /\ [][NextLink]_vars

(***************************************************************************)
(* SpecStale: SpecLink with links that may name an entity that is no World *)
(***************************************************************************)
\* an entity without World State: a World that was despawned
StaleWorld == "w0"

\* the entities the host writes into a link
LinkTargets == Worlds \cup {StaleWorld}

InitStale ==
    /\ schedule = LinkSchedule
    /\ pc = 1
    /\ InitScene
    /\ InitScheduler
    /\ InitDrift
    /\ now = MaxTime
    /\ dispatch_limit = [w \in Worlds |-> 0]
    /\ host_ops = 2

NextStale ==
    \/ RenderFrame
    \/ \E e \in Entities, y \in LinkTargets : SetLink(e, y)
    \/ \E e \in Entities, mutable \in BOOLEAN : Access(e, mutable)
    \/ \E e \in Entities, p \in Entities : Reparent(e, p)
    \/ OnAddEntityWithParent
    \/ OnChangeWorld
    \/ SyncRemovals
    \/ InitObjects
    \/ ApplyDeferred

SpecStale == InitStale /\ [][NextStale]_vars

(***************************************************************************)
(* SpecLost: the scheduler with worker tasks that may end without sending  *)
(***************************************************************************)
\* the counter of a marker is followed up to MaxElapsed frames
ElapsedBounded ==
    \A w \in Worlds :
        IsSome(task'[w]) => Unwrap(task'[w]).render_frames_elapsed <= MaxElapsed

\* the World that holds the scene may be dispatched MaxDispatch times, the other once
InitLost ==
    /\ schedule = SchedulerSchedule
    /\ pc = 1
    /\ InitScene
    /\ InitScheduler
    /\ InitDrift
    /\ now = 0
    /\ dispatch_limit = [w \in Worlds |-> IF w = "w1" THEN MaxDispatch ELSE 1]
    /\ host_ops = 0

\* handle_tasks, while the counters are followed
HandleTasksBounded == HandleTasks /\ ElapsedBounded

NextLost ==
    \/ RenderFrame
    \/ HandleTasksBounded
    \/ SpawnSimulationTask
    \/ ApplyDeferred
    \/ SyncPoint
    \/ \E w \in Worlds : WorkerRun(w)
    \/ \E w \in Worlds : WorkerFails(w)

SpecLost == InitLost /\ [][NextLost]_vars

(***************************************************************************)
(* SpecPaused: the scheduler with Worlds whose physics pipeline is off     *)
(***************************************************************************)
\* RapierConfiguration: each of the two pipelines of a World is on or off
Configurations ==
    [physics_pipeline_active : BOOLEAN, query_pipeline_active : BOOLEAN]

\* every World is dispatched once; the World that holds the scene starts on time or
\* two frames behind
InitPaused ==
    /\ schedule = SchedulerSchedule
    /\ pc = 1
    /\ InitScene
    /\ task = [w \in Worlds |-> None]
    /\ commands = [w \in Worlds |-> <<>>]
    /\ workers = [w \in Worlds |-> <<>>]
    /\ chan = [w \in Worlds |-> <<>>]
    /\ context = [w \in Worlds |-> DefaultContext]
    /\ query_pipeline = [w \in Worlds |-> [set |-> colliders[w].set, rev |-> 0]]
    /\ config \in [Worlds -> Configurations]
    /\ config["w2"].query_pipeline_active
    /\ polled = [w \in Worlds |-> "none"]
    /\ dispatched = [w \in Worlds |-> 0]
    /\ collected = [w \in Worlds |-> 0]
    /\ events = [w \in Worlds |-> <<>>]
    /\ accessed = None
    /\ sim_to_render_time \in [Worlds -> {0, 2}]
    /\ sim_to_render_time["w2"] = 0
    /\ timestep_mode = MainTimestepMode
    /\ reacted = [w \in Worlds |-> None]
    /\ now = 0
    /\ dispatch_limit = [w \in Worlds |-> 1]
    /\ host_ops = 0

SpecPaused == InitPaused /\ [][Next]_vars

(***************************************************************************)
(* SpecWorker: the scheduler, every World dispatched once with a drift     *)
(***************************************************************************)
\* the drifts, in frames, a World is dispatched with
CatchUpDrifts == 0..5

InitWorker ==
    /\ schedule = SchedulerSchedule
    /\ pc = 1
    /\ InitScene
    /\ InitScheduler
    /\ sim_to_render_time \in [Worlds -> CatchUpDrifts]
    /\ timestep_mode = MainTimestepMode
    /\ reacted = [w \in Worlds |-> None]
    /\ now = 0
    /\ dispatch_limit = [w \in Worlds |-> 1]
    /\ host_ops = 0

SpecWorker == InitWorker /\ [][Next]_vars

(***************************************************************************)
(* Properties of the scheduler                                             *)
(***************************************************************************)
\* a step of World w is dispatched and its result is not applied yet
InFlight(w) == dispatched[w] > collected[w]

MarkerPending(w) == \E i \in DOMAIN commands[w] : commands[w][i].op = "insert"

\* C1: no World ever has two worker tasks in flight: a World whose step is dispatched
\* and not yet applied carries the SimulationTask marker (or the deferred command that
\* inserts it), and at most one step of it is running, buffered or pending.
C1_AtMostOneInFlight ==
    \A w \in Worlds :
        /\ Len(workers[w]) + Len(chan[w]) <= 1
        /\ dispatched[w] - collected[w] <= 1
        /\ InFlight(w) => (IsSome(task[w]) \/ MarkerPending(w))

\* spawn_simulation_task has run over a World that could be dispatched again but still
\* carries its marker, because the marker's removal is a deferred command
C1_Witness ==
    \E w \in Worlds :
        /\ Sys = "apply_deferred"
        /\ IsSome(task[w])
        /\ commands[w] = <<[op |-> "remove"]>>
        /\ dispatched[w] < dispatch_limit[w]
        /\ workers[w] = <<>>

\* C3 as stated: while a step is in flight the World holds none of the bodies,
\* colliders, joints or query index handed to the worker.
C3_MovedOut ==
    \A w \in Worlds :
        InFlight(w) =>
            /\ bodies[w].set = {}
            /\ colliders[w].set = {}
            /\ joints[w].impulse = {} /\ joints[w].multibody = {}
            /\ query_pipeline[w].set = {}

\* C3 amended: dispatch moves only the simulation context out of the World (the World
\* holds a default context while the step is in flight); the bodies, colliders, joints
\* and query pipeline are cloned: dispatch leaves them in the World unchanged and hands
\* the worker an equal copy.
C3_OnlyContextMoved ==
    /\ [](\A w \in Worlds : InFlight(w) => context[w] = DefaultContext)
    /\ [][\A w \in Worlds :
            dispatched'[w] > dispatched[w] =>
                /\ bodies'[w] = bodies[w]
                /\ colliders'[w] = colliders[w]
                /\ joints'[w] = joints[w]
                /\ query_pipeline'[w] = query_pipeline[w]
                /\ workers'[w] # <<>>
                /\ workers'[w][Len(workers'[w])].context = context[w]
                /\ workers'[w][Len(workers'[w])].bodies = bodies[w]
                /\ workers'[w][Len(workers'[w])].colliders = colliders[w]
                /\ workers'[w][Len(workers'[w])].joints = joints[w]
                /\ workers'[w][Len(workers'[w])].query_pipeline = query_pipeline[w]]_vars

\* a World that has been stepped before is in flight again: the worker holds the
\* stepped context and a copy of the World's bodies
C3_Witness ==
    \E w \in Worlds :
        /\ workers[w] # <<>>
        /\ Head(workers[w]).context.rev > 0
        /\ context[w] = DefaultContext
        /\ bodies[w].set # {}
        /\ Head(workers[w]).bodies = bodies[w]

\* C4 as stated: when handle_tasks applies a result, every part of the World equals the
\* corresponding field of the result.
C4_ResultInstalled ==
    [][\A w \in Worlds :
          collected'[w] > collected[w] =>
              /\ context'[w] = Head(chan[w]).context
              /\ bodies'[w] = Head(chan[w]).bodies
              /\ colliders'[w] = Head(chan[w]).colliders
              /\ joints'[w] = Head(chan[w]).joints
              /\ query_pipeline'[w] = Head(chan[w]).query_pipeline]_vars

\* every dispatched step is running, buffered in the channel or applied
Conserved(w) == dispatched[w] - collected[w] = Len(workers[w]) + Len(chan[w])

CoordinatorBlocked == ~ENABLED Coordinator

Overdue(w) == IsSome(task[w]) /\ Unwrap(task[w]).render_frames_elapsed > 20

\* C9: the coordinator blocks only in handle_tasks and only on a task whose counter has
\* exceeded 20; a task with a counter of at most 20 is polled without blocking, and when
\* no result is applied its marker stays and its counter grows by exactly one.
C9_PollingPolicy ==
    /\ [](CoordinatorBlocked =>
            /\ Sys = "handle_tasks"
            /\ \E w \in Worlds : Overdue(w) /\ chan[w] = <<>>)
    /\ [][\A w \in Worlds :
            (Sys = "handle_tasks" /\ pc' # pc /\ IsSome(task[w])) =>
                /\ polled'[w] = (IF Overdue(w) THEN "recv" ELSE "try_recv")
                /\ collected'[w] = collected[w] =>
                      /\ ~Overdue(w)
                      /\ commands'[w] = commands[w]
                      /\ task'[w] = Some([Unwrap(task[w]) EXCEPT
                                             !.render_frames_elapsed = @ + 1])]_vars

\* the coordinator is blocked in handle_tasks on an overdue task whose worker still runs
C9_Witness ==
    /\ CoordinatorBlocked
    /\ \E w \in Worlds : Overdue(w) /\ workers[w] # <<>>

AfterSync == pc > 1 /\ schedule[pc - 1] = "sync_removals"

JointEntities(js) == {j[1] : j \in js}

\* every map entry of World w resolves to a live object and every live object has one
Resolved(w) ==
    /\ entity2body[w] = bodies[w].set
    /\ entity2collider[w] = colliders[w].set
    /\ entity2impulse_joint[w] = JointEntities(joints[w].impulse)
    /\ entity2multibody_joint[w] = JointEntities(joints[w].multibody)

\* C5 as stated: at the end of every sync_removals pass every handle stored in a map is a
\* live object of the World's container and every live object has a map entry (a collider
\* removed in the pass has left both and is recorded in deleted_colliders).
C5_NoDanglingHandles == AfterSync => \A w \in Worlds : Resolved(w)

\* C2 as stated: sync_removals removes no object and no map entry from a World that
\* carries a SimulationTask marker.
C2_MarkerGatesAccess ==
    AfterSync => \A w \in Worlds : touched[w] => task[w] = None

(***************************************************************************)
(* Properties of the World-Change Propagator                               *)
(***************************************************************************)
\* every system of the update cycle has run
EndOfCycle == pc = Len(schedule)

\* the Worlds whose maps contain entity e
WorldsOf(e) == {w \in Worlds : e \in Contained(w)}

\* C6 as stated: at the end of every update cycle the maps of at most one World contain
\* an entity that has a World Link.
C6_SingleWorldMembership ==
    EndOfCycle =>
        \A e \in Entities : IsSome(link[e]) => Cardinality(WorldsOf(e)) <= 1

\* an entity that the host moved to World w2 has its objects there and none in w1
C6_Witness ==
    /\ EndOfCycle
    /\ \E e \in Entities :
           /\ link[e] = Some("w2")
           /\ [op |-> "link", ent |-> e] \in host_log
           /\ WorldsOf(e) = {"w2"}

\* C7 as stated: when the only thing the host did in a cycle is to change the link of a
\* root entity, then at the end of the cycle every descendant of the root holds the
\* root's link and has no object in another World.
C7_PropagationComplete ==
    \A r \in Entities :
        (EndOfCycle /\ parent[r] = None /\ host_log = {[op |-> "link", ent |-> r]}) =>
            \A d \in Descendants(r) :
                /\ link[d] = link[r]
                /\ WorldsOf(d) \subseteq {Unwrap(link[r])}

(***************************************************************************)
(* Properties of the drift                                                 *)
(***************************************************************************)
\* C11: whenever handle_tasks applies a result to a World, the drift it leaves in the
\* World's SimulationToRenderTime is greater than or equal to zero: an update that comes
\* out negative is replaced by zero in the same pass.
C11_DriftNonNegative ==
    [][\A w \in Worlds :
          collected'[w] > collected[w] => sim_to_render_time'[w] >= 0]_vars

\* a result that simulated more time than the render clock has advanced since its
\* dispatch has just been applied, and the drift is zero
C11_Witness ==
    \E w \in Worlds :
        /\ Sys = "spawn_simulation_task"
        /\ collected[w] = 1
        /\ IsSome(task[w])
        /\ now = Unwrap(task[w]).started_at_render_time
        /\ sim_to_render_time[w] = 0

(***************************************************************************)
(* Properties of the sub-step heuristic                                    *)
(***************************************************************************)
\* the step in which react_before_starting_simulation runs
ReactStep == Sys = "react_before_starting_simulation" /\ pc' # pc

\* the sub-step duration is one frame interval
OneFrameSubstep == timestep_mode.substep_dt = [num |-> 1, den |-> 1]

\* the heuristic is the system that has just run
AfterReact == pc > 1 /\ schedule[pc - 1] = "react_before_starting_simulation"

\* C12 as stated: every sub-step count the heuristic writes lies within [10, 40],
\* whatever the drift.
C12_SubstepsWithinBounds ==
    \A w \in Worlds : IsSome(reacted[w]) => Unwrap(reacted[w]) \in 10..40

\* C12 amended: a sub-step count written for a drift above 0.5 s lies within [10, 40];
\* a count written for a drift of at most 0.5 s covers at most one frame interval plus
\* 0.5 s and can be as low as zero.
C12_BehindWithinBounds ==
    [][ReactStep =>
          \A w \in Worlds :
              IsSome(reacted'[w]) =>
                  IF sim_to_render_time[w] > 30
                  THEN Unwrap(reacted'[w]) \in 10..40
                  ELSE /\ Unwrap(reacted'[w]) >= 0
                       /\ Unwrap(reacted'[w]) * timestep_mode.substep_dt.num
                              <= 31 * timestep_mode.substep_dt.den]_vars

\* both ends of the clamp have acted: a drift just above 0.5 s with a sub-step of two
\* frames is raised to 10 sub-steps, and a large drift with a sub-step of half a frame
\* is cut to 40 while its drift is forgiven
C12_Witness ==
    /\ AfterReact
    /\ \/ /\ timestep_mode.substep_dt = [num |-> 2, den |-> 1]
          /\ \E w \in Worlds : reacted[w] = Some(10) /\ sim_to_render_time[w] = 31
       \/ /\ timestep_mode.substep_dt = [num |-> 1, den |-> 2]
          /\ \E w \in Worlds : reacted[w] = Some(40) /\ sim_to_render_time[w] = 36

\* C13: for a drift above 0.5 s the count written is floor((drift / 2) / substep_dt)
\* clamped to [10, 40]; a drift of 0.6 s (36 frames) with a sub-step of 1/60 s gives 18.
C13_BehindFormula ==
    [][ReactStep =>
          \A w \in Worlds :
              (IsSome(reacted'[w]) /\ sim_to_render_time[w] > 30) =>
                  LET q == (sim_to_render_time[w] * timestep_mode.substep_dt.den)
                               \div (2 * timestep_mode.substep_dt.num)
                  IN  /\ reacted'[w] = Some(IF q < 10 THEN 10 ELSE IF q > 40 THEN 40 ELSE q)
                      /\ (sim_to_render_time[w] = 36 /\ OneFrameSubstep) =>
                             reacted'[w] = Some(18)]_vars

\* the scenario of the spec: 0.6 s of drift, a sub-step of 1/60 s, 18 sub-steps
C13_Witness ==
    /\ AfterReact
    /\ OneFrameSubstep
    /\ \E w \in Worlds : reacted[w] = Some(18) /\ sim_to_render_time[w] = 36

\* C14: a drift above 1 s is reset to zero by the heuristic: whenever the heuristic
\* acts on a World whose drift exceeds 60 frames, the World's drift is 0 afterwards.
C14_HardThresholdForgiven ==
    [][ReactStep =>
          \A w \in Worlds :
              (IsSome(reacted'[w]) /\ sim_to_render_time[w] > 60) =>
                  sim_to_render_time'[w] = 0]_vars

\* 1.5 s of drift (90 frames) and a sub-step of 1/60 s: the count is 45 cut to 40, which
\* no drift of at most 1 s reaches, and the drift is gone
C14_Witness ==
    /\ AfterReact
    /\ OneFrameSubstep
    /\ \E w \in Worlds : reacted[w] = Some(40) /\ sim_to_render_time[w] = 0

\* C15 as stated: for a drift of at most 0.5 s the count is the number of sub-steps of
\* one frame interval plus the negative part of the drift, floored at zero, so that a
\* positive drift yields no more sub-steps than one frame interval needs.
C15_AheadOneFrame ==
    [][ReactStep =>
          \A w \in Worlds :
              (IsSome(reacted'[w]) /\ sim_to_render_time[w] <= 30) =>
                  LET neg == IF sim_to_render_time[w] < 0 THEN sim_to_render_time[w] ELSE 0
                      t == IF 1 + neg < 0 THEN 0 ELSE 1 + neg
                  IN  reacted'[w] = Some((t * timestep_mode.substep_dt.den)
                                            \div timestep_mode.substep_dt.num)]_vars

\* C15 amended: for a drift of at most 0.5 s the count is the number of sub-steps of one
\* frame interval plus the drift, whatever its sign, floored at zero:
\* floor(max(1/60 s + drift, 0) / substep_dt).
C15_AheadFormula ==
    [][ReactStep =>
          \A w \in Worlds :
              (IsSome(reacted'[w]) /\ sim_to_render_time[w] <= 30) =>
                  LET t == 1 + sim_to_render_time[w]
                  IN  reacted'[w] = Some(IF t <= 0 THEN 0
                                         ELSE (t * timestep_mode.substep_dt.den)
                                                  \div timestep_mode.substep_dt.num)]_vars

\* 0.4 s of drift (24 frames) and a sub-step of 1/60 s: 25 sub-steps, the drift stays
C15_Witness ==
    /\ AfterReact
    /\ OneFrameSubstep
    /\ \E w \in Worlds : reacted[w] = Some(25) /\ sim_to_render_time[w] = 24

\* C16: the heuristic never changes the sub-step duration nor the variant of the
\* timestep mode; it changes nothing but the sub-step count and the drift, leaves the
\* drift of a World that carries a SimulationTask marker alone, writes no count when
\* every World carries one, and in another timestep mode changes nothing at all.
C16_StepDurationKept ==
    [][ReactStep =>
          /\ timestep_mode'.substep_dt = timestep_mode.substep_dt
          /\ timestep_mode'.mode = timestep_mode.mode
          /\ \A w \in Worlds :
                 IsSome(task[w]) =>
                     sim_to_render_time'[w] = sim_to_render_time[w] /\ reacted'[w] = None
          /\ (\A w \in Worlds : IsSome(task[w])) => timestep_mode' = timestep_mode
          /\ timestep_mode.mode # "FixedSubsteps" =>
                 timestep_mode' = timestep_mode /\ sim_to_render_time' = sim_to_render_time
          /\ UNCHANGED <<clockVars, flagVars, taskVars, worldVars, config, mapVars, ecsVars,
                         syncVars, hierVars>>]_vars

\* the heuristic has passed over a World in flight and has acted on the other World
C16_Witness ==
    /\ AfterReact
    /\ IsSome(task["w1"]) /\ reacted["w1"] = None
    /\ IsSome(reacted["w2"])

(***************************************************************************)
(* Properties of on_add_entity_with_parent                                 *)
(***************************************************************************)
\* C17 as stated: when the only thing the host did in a cycle is to make the entity
\* that carries no World Link a child of a linked entity, the child holds the link of
\* that entity at the end of the cycle.
C17_UnlinkedChildAdopted ==
    \A a \in Entities :
        (/\ EndOfCycle
         /\ host_log = {[op |-> "parent", ent |-> Newcomer]}
         /\ parent[Newcomer] = Some(a)
         /\ IsSome(link[a])) =>
            link[Newcomer] = link[a]

\* the step in which on_add_entity_with_parent runs
AddStep == Sys = "on_add_entity_with_parent" /\ pc' # pc

\* the deferred commands the step has issued
Issued == SubSeq(entity_commands', Len(entity_commands) + 1, Len(entity_commands'))

\* the kinds of handle the commands cs strip from entity e
StripsOf(cs, e) ==
    {cs[i].kind : i \in {j \in DOMAIN cs : cs[j].op = "remove" /\ e \in cs[j].ents}}

\* the Worlds the commands cs link entity e to
LinksOf(cs, e) ==
    {cs[i].world : i \in {j \in DOMAIN cs : cs[j].op = "insert_link" /\ cs[j].ent = e}}

\* the ancestors of e that have a World Link and no linked ancestor of e below them
NearestLinkedAncestors(e) ==
    LET anc == {a \in Entities : e \in Descendants(a) /\ IsSome(link[a])}
    IN  {a \in anc : \A b \in anc : b = a \/ a \in Descendants(b)}

\* C18: on_add_entity_with_parent strips the four handle markers of a linked entity
\* whose parent or link changed and whose nearest linked ancestor names another World,
\* and links it to that World; it issues no command on an entity whose nearest linked
\* ancestor names the same World, that has no linked ancestor, or that did not change.
C18_ChildJoinsParentContext ==
    [][AddStep =>
          \A e \in Entities :
              IF /\ IsSome(link[e]) /\ IsSome(parent[e])
                 /\ e \in link_changed["on_add_entity_with_parent"] \cup parent_changed
                 /\ \E a \in NearestLinkedAncestors(e) : link[a] # link[e]
              THEN /\ StripsOf(Issued, e) = Kinds
                   /\ LinksOf(Issued, e) = {Unwrap(link[a]) : a \in NearestLinkedAncestors(e)}
              ELSE /\ StripsOf(Issued, e) = {}
                   /\ LinksOf(Issued, e) = {}]_vars

\* on_add_entity_with_parent has just given an entity the link of its parent, and has
\* passed over an entity whose new parent has no link
C18_Witness ==
    /\ pc > 1 /\ schedule[pc - 1] = "on_add_entity_with_parent"
    /\ \E i \in DOMAIN entity_commands : entity_commands[i].op = "insert_link"
    /\ \E e \in Entities :
           /\ IsSome(link[e])
           /\ parent[e] = Some(Newcomer)
           /\ link[Newcomer] = None
           /\ [op |-> "parent", ent |-> e] \in host_log

(***************************************************************************)
(* Properties of one sync_removals pass                                    *)
(***************************************************************************)
\* the step in which sync_removals runs
SyncStep == Sys = "sync_removals" /\ pc' # pc

Rank(entry) ==
    CASE entry.phase = "body" -> IF entry.how = "removed" THEN 1 ELSE 2
      [] entry.phase = "collider" -> IF entry.how = "removed" THEN 3 ELSE 4
      [] entry.phase = "impulse_joint" -> IF entry.how = "removed" THEN 5 ELSE 6
      [] entry.phase = "multibody_joint" -> IF entry.how = "removed" THEN 7 ELSE 8
      [] entry.phase = "flag" -> 9

\* C20: in every sync_removals pass the body removals (explicit, then orphan) come
\* before the collider removals, these before the impulse-joint removals, these before
\* the multibody-joint removals, and the flag resets come last; sync_removals stands
\* once in the cycle, and removals and changes of the maps happen in that step only.
C20_RemovalOrder ==
    /\ [](\A i, j \in DOMAIN removal_log :
             i < j => Rank(removal_log[i]) <= Rank(removal_log[j]))
    /\ [](Cardinality({i \in DOMAIN schedule : schedule[i] = "sync_removals"}) = 1)
    /\ [][(removal_log' # removal_log \/ mapVars' # mapVars) =>
             (Sys = "sync_removals" /\ pc' = pc + 1)]_vars

\* one pass has removed a body and a collider and has reset a flag
C20_Witness ==
    /\ AfterSync
    /\ {"body", "collider", "flag"} \subseteq {removal_log[i].phase : i \in DOMAIN removal_log}

(***************************************************************************)
(* Removal signals without a World, orphans, marker removals                *)
(***************************************************************************)
\* the entity-to-handle maps of one kind
MapOf(k) ==
    CASE k = "body" -> entity2body
      [] k = "collider" -> entity2collider
      [] k = "impulse_joint" -> entity2impulse_joint
      [] k = "multibody_joint" -> entity2multibody_joint

\* the removal signals of kind k that name an entity no World's map contains
MissingContext(k) == {e \in removed[k] : ~Found(MapOf(k), e)}

\* every pending signal is one without a World: no orphan, no marker removal
OnlyMissingContext ==
    /\ \A k \in Kinds : removed[k] = MissingContext(k) /\ Orphans(k) = {}
    /\ \A m \in MarkerKinds : removed_marker[m] = {}

\* the entries of a removal log that name entity e in phase k
EntriesOf(log, k, e) == {i \in DOMAIN log : log[i].phase = k /\ log[i].ent = e}

\* C21: a removal signal of any kind that names an entity no World's map contains is
\* skipped: the pass removes nothing for it and records nothing in deleted_colliders;
\* when every pending signal is of that sort no map, container or deleted_colliders set
\* changes and no mass-changed event is sent; the pass always completes, and every other
\* signal of the same pass has its map entry taken out of the World that held it.
C21_MissingContextSkipped ==
    [][SyncStep =>
          /\ \A k \in Kinds : \A e \in MissingContext(k) :
                /\ <<k, e>> \in no_context'
                /\ EntriesOf(removal_log', k, e) = {}
                /\ k = "collider" =>
                      \A w \in Worlds : e \in deleted_colliders'[w] => e \in deleted_colliders[w]
          /\ OnlyMissingContext =>
                /\ UNCHANGED <<mapVars, bodies, colliders, joints>>
                /\ mass_modified' = {}
                /\ removal_log' = <<>>
          /\ \A k \in Kinds : \A e \in removed[k] \ MissingContext(k) :
                /\ EntriesOf(removal_log', k, e) # {}
                /\ \E w \in Worlds : e \in MapOf(k)[w] /\ e \notin MapOf(k)'[w]]_vars

\* one pass has skipped a signal without a World and has carried out another removal
C21_Witness ==
    /\ AfterSync
    /\ no_context # {}
    /\ \E i \in DOMAIN removal_log : removal_log[i].how = "removed"

\* the entities that have a live object of kind k in World w
ContainerOf(k, w) ==
    CASE k = "body" -> bodies[w].set
      [] k = "collider" -> colliders[w].set
      [] k = "impulse_joint" -> JointEntities(joints[w].impulse)
      [] k = "multibody_joint" -> JointEntities(joints[w].multibody)

\* entity e is in the maps of kind k of two Worlds, or its map entry names a handle that
\* the container does not hold
Corrupt(k, e) ==
    \/ Cardinality({w \in Worlds : e \in MapOf(k)[w]}) > 1
    \/ \E w \in Worlds : e \in MapOf(k)[w] /\ e \notin ContainerOf(k, w)

\* C22 as stated: sync_removals never completes a pass in which it processes the removal
\* of an entity that is in the maps of two Worlds or whose map entry names a handle
\* absent from the container: such a pass ends in a hard failure.
C22_ViolationsSurface ==
    [][SyncStep => \A k \in Kinds : \A e \in removed[k] \cup Orphans(k) : ~Corrupt(k, e)]_vars

\* the step in which the commands of sync_removals are applied
FlushStep == Sys = "apply_deferred" /\ pc' # pc

\* the entities the host has changed in the current update cycle
HostChanged == {c.ent : c \in host_log}

\* C23: one sync_removals pass removes the physics object and the map entry of every
\* orphan from the World that has it and issues the command that strips its handle,
\* whether or not a World was found; once the commands are applied no entity is an orphan
\* any more; and the removal signal the stripping raises is skipped by the next pass,
\* which changes nothing in any World when the host has changed nothing in between.
C23_OrphanCleanupOnce ==
    /\ [][SyncStep =>
             \A k \in Kinds : \A e \in Orphans(k) :
                 /\ \A w \in Worlds : e \notin MapOf(k)'[w] /\ e \notin ContainerOf(k, w)'
                 /\ \E i \in DOMAIN entity_commands' :
                        /\ entity_commands'[i].op = "remove"
                        /\ entity_commands'[i].kind = k
                        /\ e \in entity_commands'[i].ents]_vars
    /\ [][FlushStep => \A k \in Kinds : Orphans(k)' = {}]_vars
    /\ [][SyncStep =>
             /\ \A k \in Kinds : \A e \in removed[k] \ HostChanged :
                    <<k, e>> \in no_context' /\ EntriesOf(removal_log', k, e) = {}
             /\ host_log = {} =>
                    /\ UNCHANGED <<mapVars, bodies, colliders, joints>>
                    /\ entity_commands' = <<>>
                    /\ mass_modified' = {}]_vars

\* a pass in a cycle in which the host changed nothing has skipped the signal that the
\* stripping of an orphan's handle raised
C23_Witness ==
    /\ AfterSync
    /\ host_log = {}
    /\ no_context # {}
    /\ removal_log = <<>>

\* no removal of an object is pending: no removal signal of a handle and no orphan
OnlyMarkers == \A k \in Kinds : removed[k] = {} /\ Orphans(k) = {}

\* C24: when the Sensor, ColliderDisabled or RigidBodyDisabled marker was removed from an
\* entity, the pass clears the sensor flag, or the disabled flag of the collider or of the
\* body, of the object the entity is mapped to; a pass with marker removals only changes
\* exactly these flags and leaves every map, every container's membership, every
\* attachment, every joint and deleted_colliders as they were; when no such entity has a
\* mapped object nothing changes.
C24_MarkerRemovalResetsFlag ==
    [][SyncStep =>
          /\ \A w \in Worlds :
                /\ \A e \in removed_marker["Sensor"] \cap entity2collider'[w] :
                       e \notin colliders'[w].sensor
                /\ \A e \in removed_marker["ColliderDisabled"] \cap entity2collider'[w] :
                       e \notin colliders'[w].disabled
                /\ \A e \in removed_marker["RigidBodyDisabled"] \cap entity2body'[w] :
                       e \notin bodies'[w].disabled
          /\ OnlyMarkers =>
                /\ UNCHANGED <<mapVars, joints, entity_commands>>
                /\ mass_modified' = {}
                /\ \A w \in Worlds :
                      /\ colliders'[w] =
                            [colliders[w] EXCEPT
                                !.sensor = @ \ (removed_marker["Sensor"] \cap entity2collider[w]),
                                !.disabled = @ \ (removed_marker["ColliderDisabled"]
                                                     \cap entity2collider[w])]
                      /\ bodies'[w] =
                            [bodies[w] EXCEPT
                                !.disabled = @ \ (removed_marker["RigidBodyDisabled"]
                                                     \cap entity2body[w])]]_vars

\* a pass has cleared the sensor flag of e3's collider, which stays in the collider set
\* and in the map, and has removed nothing
C24_Witness ==
    /\ AfterSync
    /\ removal_log # <<>>
    /\ \A i \in DOMAIN removal_log : removal_log[i].phase = "flag"
    /\ "e3" \in colliders["w1"].set \cap entity2collider["w1"]
    /\ "e3" \notin colliders["w1"].sensor
    /\ "e3" \in SceneMarker["Sensor"]

(***************************************************************************)
(* Independence of the Worlds, events, the worker's loop                      *)
(***************************************************************************)
\* the step in which spawn_simulation_task runs
SpawnStep == Sys = "spawn_simulation_task" /\ pc' # pc

\* C26: the steps of one World never overlap (at most one of them is running or
\* buffered); spawn_simulation_task dispatches every World that carries no marker,
\* whatever the other Worlds are doing, and a World that carries the marker is left
\* alone; steps of different Worlds may be in flight together.
C26_WorldsIndependent ==
    /\ [](\A w \in Worlds : Len(workers[w]) + Len(chan[w]) <= 1)
    /\ [][SpawnStep =>
             \A w \in Worlds :
                 IF task[w] = None /\ dispatched[w] < dispatch_limit[w]
                 THEN /\ dispatched'[w] = dispatched[w] + 1
                      /\ Len(workers'[w]) = Len(workers[w]) + 1
                      /\ MarkerPending(w)'
                 ELSE /\ dispatched'[w] = dispatched[w]
                      /\ workers'[w] = workers[w]
                      /\ commands'[w] = commands[w]]_vars

\* a World has just been dispatched for its second step while the first step of the
\* other World, dispatched in an earlier cycle, is still running
C26_Witness ==
    \E w, v \in Worlds :
        /\ w # v
        /\ Sys = "apply_deferred"
        /\ workers[w] # <<>> /\ workers[v] # <<>>
        /\ MarkerPending(w)
        /\ Head(workers[w]).context.rev > 0
        /\ IsSome(task[v])
        /\ Unwrap(task[v]).render_frames_elapsed > 0

\* the step in which handle_tasks runs
HandleStep == Sys = "handle_tasks" /\ pc' # pc

\* the last deferred command of World w removes the SimulationTask marker
RemovalIssued(w) == commands[w] # <<>> /\ commands[w][Len(commands[w])].op = "remove"

\* C27: events are sent by handle_tasks only; in a pass it sends the events of a World
\* exactly once when it applies a result of that World, from the context the result
\* returned, and issues the removal of the SimulationTask marker in the same step; it
\* sends none for a World of which it applied no result; once the commands are applied
\* the World carries no marker and can be dispatched again.
C27_EventsFollowResults ==
    /\ [][events' # events => HandleStep]_vars
    /\ [][HandleStep =>
             \A w \in Worlds :
                 IF collected'[w] > collected[w]
                 THEN /\ events'[w] = <<Head(chan[w]).context>>
                      /\ context'[w] = Head(chan[w]).context
                      /\ commands'[w] = Append(commands[w], [op |-> "remove"])
                 ELSE /\ events'[w] = <<>>
                      /\ commands'[w] = commands[w]]_vars
    /\ [][\A w \in Worlds :
             (RemovalIssued(w) /\ commands'[w] = <<>>) => Eligible(w)']_vars

\* handle_tasks has applied the result of one World and sent its events, while the other
\* World is still in flight and no events were sent for it
C27_Witness ==
    \E w, v \in Worlds :
        /\ Sys = "spawn_simulation_task"
        /\ Len(events[w]) = 1
        /\ events[w][1].rev > 0
        /\ context[w] = events[w][1]
        /\ RemovalIssued(w)
        /\ IsSome(task[v])
        /\ events[v] = <<>>
        /\ ~RemovalIssued(v)

\* the worker of World w runs and sends its result
WorkerStep(w) ==
    /\ workers[w] # <<>>
    /\ workers'[w] = Tail(workers[w])
    /\ Len(chan'[w]) = Len(chan[w]) + 1

\* C28 as stated: a task performs at most 3 steps and, for a non-negative drift, at
\* least one; it stops as soon as the time simulated so far is enough to erase the drift
\* pending at dispatch (at least the drift), and simulated_time is the sum of the deltas
\* of the steps performed.
C28_StopsWhenErased ==
    [][\A w \in Worlds :
          WorkerStep(w) =>
              LET in == Head(workers[w])
                  out == chan'[w][Len(chan'[w])]
                  n == out.context.rev - in.context.rev
                  drift == in.sim_to_render_time
              IN  /\ n <= 3
                  /\ drift >= 0 => n >= 1
                  /\ out.bodies.rev - in.bodies.rev = n
                  /\ \E dt \in StepDeltas :
                        /\ out.simulated_time = n * dt
                        /\ \A k \in 1..(n - 1) : k * dt < drift
                        /\ n < 3 => n * dt >= drift]_vars

\* C28 amended: a task performs at most 3 steps and, for a non-negative drift, at least
\* one; it stops as soon as the time simulated so far exceeds the drift pending at
\* dispatch, and simulated_time is the sum of the deltas of the steps performed.
C28_StopsWhenExceeded ==
    [][\A w \in Worlds :
          WorkerStep(w) =>
              LET in == Head(workers[w])
                  out == chan'[w][Len(chan'[w])]
                  n == out.context.rev - in.context.rev
                  drift == in.sim_to_render_time
              IN  /\ n <= 3
                  /\ drift >= 0 => n >= 1
                  /\ out.bodies.rev - in.bodies.rev = n
                  /\ \E dt \in StepDeltas :
                        /\ out.simulated_time = n * dt
                        /\ \A k \in 1..(n - 1) : k * dt <= drift
                        /\ n < 3 => n * dt > drift]_vars

\* a task dispatched with a drift of two frames has made two steps of two frames: after
\* the first the simulated time equalled the drift, after the second it exceeded it
C28_Witness ==
    \E w \in Worlds :
        /\ chan[w] # <<>>
        /\ IsSome(task[w])
        /\ Head(chan[w]).context.rev = 2
        /\ Head(chan[w]).simulated_time = 4
        /\ sim_to_render_time[w] = 2

(***************************************************************************)
(* Removed objects                                                         *)
(***************************************************************************)
\* C29 as stated: an entry of a map or an object of a container of a World goes away in
\* a sync_removals pass only, and none comes (back) into a container or a map except
\* where the initialization systems create it anew; applying the result of a background
\* step restores nothing.
C29_RemovedStaysRemoved ==
    [][\A w \in Worlds : \A k \in Kinds :
          /\ (\/ ~(ContainerOf(k, w) \subseteq ContainerOf(k, w)')
              \/ ~(MapOf(k)[w] \subseteq MapOf(k)'[w])) => Sys = "sync_removals"
          /\ (\/ ~(ContainerOf(k, w)' \subseteq ContainerOf(k, w))
              \/ ~(MapOf(k)'[w] \subseteq MapOf(k)[w])) => Sys = "init"]_vars

(***************************************************************************)
(* The traversals of the hierarchy                                         *)
(***************************************************************************)
\* the step in which on_change_world runs
ChangeStep == Sys = "on_change_world" /\ pc' # pc

\* the entities whose link change on_change_world propagates in this pass
Propagating ==
    {e \in link_changed["on_change_world"] :
        IsSome(link[e]) /\ e \notin Contained(Unwrap(link[e]))}

\* the descendants of e with no entity already linked to the World of e on the way from
\* e down to them
Reached(e) ==
    {d \in Descendants(e) :
        \A b \in Descendants(e) : (b = d \/ d \in Descendants(b)) => link[b] # link[e]}

\* the number of link commands of cs on entity d
VisitsOf(cs, d) ==
    Cardinality({i \in DOMAIN cs : cs[i].op = "insert_link" /\ cs[i].ent = d})

\* C30: both traversals end on every forest the host builds: on_change_world and
\* on_add_entity_with_parent always complete; the downward propagation of one link change
\* visits a descendant once when no entity on the way down to it is already linked to the
\* new World and not at all otherwise; the upward walk links an entity at most once, to
\* the World of its nearest linked ancestor, and issues nothing when it reaches the root
\* without finding a link.
C30_TraversalsTerminate ==
    /\ [](/\ Sys = "on_change_world" => ENABLED OnChangeWorld
          /\ Sys = "on_add_entity_with_parent" => ENABLED OnAddEntityWithParent)
    /\ [][ChangeStep =>
             \A d \in Entities :
                 VisitsOf(Issued, d) = Cardinality({e \in Propagating : d \in Reached(e)})]_vars
    /\ [][AddStep =>
             \A e \in Entities :
                 /\ VisitsOf(Issued, e) <= 1
                 /\ LinksOf(Issued, e) \subseteq
                        {Unwrap(link[a]) : a \in NearestLinkedAncestors(e)}]_vars

\* the propagation of the host's link change of e has visited one child of e and has
\* passed over another child, already linked to the new World, and the entities below it
C30_Witness ==
    /\ pc > 1 /\ schedule[pc - 1] = "on_change_world"
    /\ \E e, c, d \in Entities :
           /\ [op |-> "link", ent |-> e] \in host_log
           /\ parent[c] = Some(e) /\ parent[d] = Some(e)
           /\ link[c] = link[e]
           /\ Children(c) # {}
           /\ \A x \in {c} \cup Descendants(c) : VisitsOf(entity_commands, x) = 0
           /\ VisitsOf(entity_commands, d) = 1

(***************************************************************************)
(* World changes                                                           *)
(***************************************************************************)
\* the entities the host has removed a handle or a descriptor from in this cycle
HostRemoved == {c.ent : c \in {x \in host_log : x.op = "remove"}}

\* the pending removal signals of kind k that the stripping of a linked entity's handle
\* markers by the propagator has raised
StripSignals(k) == {e \in removed[k] : e \notin HostRemoved /\ IsSome(link[e])}

\* C31 as stated: the removal signals that a world change of entity e has raised make
\* sync_removals take e out of the maps of the Worlds it has left, whatever the order
\* in which the Worlds are searched, and leave the World its link names as it was: no
\* map entry or object of e there is removed and no deleted_colliders entry is recorded.
C31_OnlyOldWorldLoses ==
    [][SyncStep =>
          \A k \in Kinds : \A e \in StripSignals(k) :
              /\ \A w \in Worlds \ {Unwrap(link[e])} : e \notin MapOf(k)'[w]
              /\ LET y == Unwrap(link[e])
                 IN  /\ e \in MapOf(k)[y] => e \in MapOf(k)'[y]
                     /\ e \in ContainerOf(k, y) => e \in ContainerOf(k, y)'
                     /\ e \in deleted_colliders'[y] => e \in deleted_colliders[y]]_vars

\* the entity has a link, and a map of the World the link names contains it
AlreadyIn(e) ==
    \E w \in Worlds, k \in Kinds : link[e] = Some(w) /\ e \in MapOf(k)[w]

\* the entities whose link is marked changed for on_change_world and names a World that
\* contains none of their handles, or an entity that is not a World
Moving == {e \in link_changed["on_change_world"] : IsSome(link[e]) /\ ~AlreadyIn(e)}

\* the number of strip commands of cs on entity e
StripCount(cs, e) ==
    Cardinality({i \in DOMAIN cs : cs[i].op = "remove" /\ e \in cs[i].ents})

\* C32: in an on_change_world pass an entity whose link is marked changed and names a
\* World that contains it in one of its four maps gets no strip command of its own and
\* sends no link command down (what it and its descendants get is what the moving
\* entities above them send down); an entity whose link is marked changed and names a
\* World that contains it in no map, or an entity that is not a World, has its four
\* handle markers stripped, and every descendant the downward traversal reaches from it
\* is stripped and given that link.
C32_WorldChangeGuard ==
    [][ChangeStep =>
          /\ \A e \in Entities :
                StripCount(Issued, e) =
                    Cardinality(Kinds)
                        * Cardinality({a \in Moving : a = e \/ e \in Reached(a)})
          /\ \A d \in Entities :
                VisitsOf(Issued, d) = Cardinality({a \in Moving : d \in Reached(a)})
          /\ \A e \in Moving :
                /\ StripsOf(Issued, e) = Kinds
                /\ \A d \in Reached(e) :
                      /\ StripsOf(Issued, d) = Kinds
                      /\ Unwrap(link[e]) \in LinksOf(Issued, d)]_vars

\* on_change_world has passed over an entity whose link the host wrote and that names,
\* when the system runs, the World that holds it, and has stripped, and sent down the
\* link of, an entity linked to an entity that is not a World
C32_Witness ==
    /\ pc > 1 /\ schedule[pc - 1] = "on_change_world"
    /\ \E e, g, d \in Entities :
           /\ [op |-> "link", ent |-> g] \in host_log
           /\ AlreadyIn(g)
           /\ StripCount(entity_commands, g) = 0
           /\ link[e] = Some(StaleWorld)
           /\ parent[d] = Some(e)
           /\ StripsOf(entity_commands, e) = Kinds
           /\ LinksOf(entity_commands, d) = {StaleWorld}

(***************************************************************************)
(* The drift between two results                                           *)
(***************************************************************************)
\* C33: when handle_tasks applies a result to a World the new drift is max(0, old drift
\* - simulated_time + (render time now - render time at dispatch)), where the old drift
\* is the one the World holds; no other step of the scheduler changes the drift of a
\* World, so while a worker holds its copy of the drift the World still holds the value
\* that was copied, and a worker step changes no drift of a World.
C33_DriftUpdate ==
    /\ [][\A w \in Worlds :
             IF collected'[w] > collected[w]
             THEN LET d == sim_to_render_time[w] - Head(chan[w]).simulated_time
                               + (now - Unwrap(task[w]).started_at_render_time)
                  IN  sim_to_render_time'[w] = IF d < 0 THEN 0 ELSE d
             ELSE sim_to_render_time'[w] = sim_to_render_time[w]]_vars
    /\ [](\A w \in Worlds :
             workers[w] # <<>> =>
                 Head(workers[w]).sim_to_render_time = sim_to_render_time[w])
    /\ [][\A w \in Worlds : WorkerStep(w) => sim_to_render_time' = sim_to_render_time]_vars

\* a result that simulated three frames was applied one frame after its dispatch, and
\* the drift it leaves is above zero: neither term was dropped nor the clamp taken
C33_Witness ==
    \E w \in Worlds :
        /\ Sys = "spawn_simulation_task"
        /\ collected[w] = 1
        /\ IsSome(task[w])
        /\ now > Unwrap(task[w]).started_at_render_time
        /\ bodies[w].rev = 3
        /\ sim_to_render_time[w] = 3

(***************************************************************************)
(* A worker that ends without sending                                      *)
(***************************************************************************)
\* the step of World w is dispatched, its worker has ended and has sent nothing
Lost(w) == InFlight(w) /\ workers[w] = <<>> /\ chan[w] = <<>>

\* the commands that remove the marker of World w
MarkerRemovals(w) == {i \in DOMAIN commands[w] : commands[w][i].op = "remove"}

\* C34: a command that removes a SimulationTask marker is issued only by the
\* handle_tasks pass that receives a result of that World, and a marker goes away only
\* when such a command is applied; handle_tasks never blocks on a World whose worker
\* has ended, whatever the counter; and once a worker has ended without sending, the
\* World keeps its marker, is never dispatched again and never has a result applied,
\* and every handle_tasks pass adds one to render_frames_elapsed.
C34_MarkerOnlyByResult ==
    /\ [][\A w \in Worlds :
             /\ Cardinality(MarkerRemovals(w)') > Cardinality(MarkerRemovals(w)) =>
                    /\ Sys = "handle_tasks"
                    /\ chan[w] # <<>>
                    /\ collected'[w] = collected[w] + 1
             /\ (IsSome(task[w]) /\ task'[w] = None) => MarkerRemovals(w) # {}]_vars
    /\ [](Sys = "handle_tasks" /\ (\A w \in Worlds : workers[w] = <<>>)
             => ENABLED HandleTasks)
    /\ [][\A w \in Worlds :
             Lost(w) =>
                 /\ Lost(w)'
                 /\ IsSome(task[w]) \/ MarkerPending(w)
                 /\ IsSome(task[w]) => IsSome(task'[w])
                 /\ dispatched'[w] = dispatched[w]
                 /\ collected'[w] = collected[w]
                 /\ MarkerRemovals(w)' = {}
                 /\ (HandleStep /\ IsSome(task[w])) =>
                        Unwrap(task'[w]).render_frames_elapsed
                            = Unwrap(task[w]).render_frames_elapsed + 1]_vars

\* a World whose worker ended without sending has been polled with the blocking receive,
\* still carries its marker and could be dispatched again but for the marker
C34_Witness ==
    \E w \in Worlds :
        /\ Lost(w)
        /\ IsSome(task[w])
        /\ Unwrap(task[w]).render_frames_elapsed > BlockingThreshold + 1
        /\ polled[w] = "recv"
        /\ dispatched[w] < dispatch_limit[w]
        /\ Sys = "apply_deferred"

(***************************************************************************)
(* A World whose physics pipeline is inactive                              *)
(***************************************************************************)
\* C35: the task of a World whose physics pipeline is inactive makes no simulation step
\* (the simulation context and the joints it sends back are the ones it was handed) and reports simulated_time = 0; applying its result adds to the drift of the
\* World exactly the render time elapsed since the dispatch; and the World is dispatched
\* when it carries no marker, its result is collected and the removal of its marker is
\* issued, as for any other World.
C35_InactivePipeline ==
    /\ [][\A w \in Worlds :
             (WorkerStep(w) /\ ~Head(workers[w]).config.physics_pipeline_active) =>
                 LET in == Head(workers[w])
                     out == chan'[w][Len(chan'[w])]
                 IN  /\ out.simulated_time = 0
                     /\ out.context = in.context
                     /\ out.joints = in.joints]_vars
    /\ [][\A w \in Worlds :
             (collected'[w] > collected[w] /\ ~config[w].physics_pipeline_active) =>
                 /\ sim_to_render_time'[w] =
                        sim_to_render_time[w]
                            + (now - Unwrap(task[w]).started_at_render_time)
                 /\ commands'[w] = Append(commands[w], [op |-> "remove"])]_vars
    /\ [][\A w \in Worlds :
             /\ (SpawnStep /\ task[w] = None /\ dispatched[w] < dispatch_limit[w]) =>
                    /\ dispatched'[w] = dispatched[w] + 1
                    /\ Len(workers'[w]) = Len(workers[w]) + 1
             /\ (HandleStep /\ IsSome(task[w]) /\ chan[w] # <<>>) =>
                    collected'[w] = collected[w] + 1]_vars

\* the result of a World whose physics pipeline is inactive was applied one frame after
\* its dispatch and its marker is gone: nothing was stepped, and the drift went from two
\* frames to three
C35_Witness ==
    \E w \in Worlds :
        /\ ~config[w].physics_pipeline_active
        /\ collected[w] = 1
        /\ task[w] = None
        /\ commands[w] = <<>>
        /\ context[w].rev = 0
        /\ sim_to_render_time[w] = 3

(***************************************************************************)
(* The fixed point of the propagation                                      *)
(***************************************************************************)
\* every linked entity that has a linked ancestor holds the link of the nearest one
Aligned ==
    \A e \in Entities :
        IsSome(link[e]) => \A a \in NearestLinkedAncestors(e) : link[a] = link[e]

\* a pass of one of the two propagation rules that issues no command
Quiet == (AddStep \/ ChangeStep) => Issued = <<>>

\* C36 as stated: the host changes links and parents finitely often, and from some
\* update cycle on every linked entity that has a linked ancestor holds the link of its
\* nearest linked ancestor, and from some cycle on no pass of on_change_world or
\* on_add_entity_with_parent issues a command that changes a link or strips a handle.
C36_FixedPointAligned == (<>[]Aligned) /\ (<>[][Quiet]_vars)

(***************************************************************************)
(* Looking up a World through a stale link                                 *)
(***************************************************************************)
\* C37: a lookup of a World through a link, by RapierContextAccess::context or by
\* RapierContextAccessMut::context, is made with the link an entity holds; when the
\* link names an entity with World State the lookup returns that World and does not
\* fail, and when it names an entity without World State the lookup returns no World
\* and fails with the message of the expect.
C37_StaleLinkFails ==
    /\ [](IsSome(accessed) =>
             LET a == Unwrap(accessed)
             IN  IF a.link \in Worlds
                 THEN a.result.world = Some(a.link) /\ a.result.panic = None
                 ELSE a.result.world = None /\ a.result.panic = Some(ExpectMessage))
    /\ [][accessed' # accessed =>
             \E e \in Entities : link[e] = Some(Unwrap(accessed').link)]_vars

\* the link of an entity names an entity that is no World, and the lookup through it
\* has failed
C37_Witness ==
    /\ IsSome(accessed)
    /\ Unwrap(accessed).link = StaleWorld
    /\ IsSome(Unwrap(accessed).result.panic)
    /\ \E e \in Entities : link[e] = Some(StaleWorld)
====
